---- MODULE Spec2Model ----
(***************************************************************************)
(* A model of the mail-store scanning and conversation-threading pipeline  *)
(* of himalayatui: src/mail/threading.rs (build_threaded_list),            *)
(* src/mail/cache.rs (the scan cache) and src/mail/client.rs               *)
(* (scan_all_mail, the header parser).                                     *)
(*                                                                         *)
(* Conventions.  Rust's 0-based vector indices are 1-based here, and an    *)
(* Option<usize> / Option<String> is a natural number with 0 for None.     *)
(* Message ids and normalized dates are opaque strings to the threading    *)
(* code (it only tests ids for equality and compares dates lexically), so  *)
(* they are natural numbers >= 1 with the usual order.  A character is its *)
(* code point and a string a sequence of code points.                      *)
(***************************************************************************)
EXTENDS Integers, Sequences, FiniteSets, TLC

\* ------------------------------------------------------------------ bounds
\* Largest input of the threading specifications.
MaxEnv == 4
\* Largest normalized date (0 is "no Date header").
MaxDate == 2
\* Input sizes of the specification that varies message ids and references.
MaxEnvIds == 3
MaxId == 2
MaxRefs == 2
\* Input size of the specification that is checked for termination.
MaxEnvLive == 3
\* The hop cap of the root-finding walk.  The code's cap is 1000
\* (threading.rs:92); the walk is modelled with the cap as a parameter and
\* checked with a small one, so that reply chains longer than the cap fit
\* in MaxEnv envelopes.
HopCap == 1
\* The mail store of the scanner specification: message file paths 1..MaxPaths,
\* modification times 0..MaxMtime (and -1, a time that cannot be read), file
\* contents 1..MaxContent (and 0, a file that cannot be read as text).
MaxPaths == 2
MaxMtime == 1
MaxContent == 2
\* Parse workers of the scanner's thread pool.
MaxWorkers == 2
\* Longest From/To header value of the address-parser specification.
MaxHeaderLen == 4
\* Most messages of the single thread whose annotation is checked.
MaxTree == 9
\* Longest reply chain of the chain specification (beyond the hop cap).
MaxChain == 5
\* Largest depth handed to compute_tree_prefix.
MaxPrefixDepth == 60
\* Letters after ":2," in a file name.
MaxFlags == 3
\* Pieces a header value is put together from.
MaxPieces == 5
\* Lines of a message file.
MaxLines == 4
\* Distinct attachment paths.
MaxAttach == 2
\* Files the chooser returns at once.
MaxPicked == 2
\* Keys handled in one run of the compose model.
MaxKeys == 4

\* Most envelopes of a message list.
MaxList == 2
\* Longest search query typed.
MaxQuery == 2
\* Longest search query typed while read marks are followed.
MaxTyped == 1
\* Largest list_area.height, line count and list of the scrolling model.
MaxHeight == 4
MaxScroll == 3
MaxScrollList == 3

\* ---------------------------------------------------------- program constants
\* cache.rs: const CACHE_VERSION
CACHE_VERSION == 3
\* client.rs: progress is reported when current % 100 == 0
ReportEvery == 100
\* The characters the header parser looks for, as code points.
CharTab == 9
CharSpace == 32
CharQuote == 34
CharPlus == 43
CharLt == 60
CharEq == 61
CharGt == 62
CharQm == 63
CharUnderscore == 95
CharComma == 44
CharColon == 58
\* The maildir flag letters.
CharD == 68
CharF == 70
CharP == 80
CharR == 82
CharS == 83
CharT == 84
\* U+FFFD, what String::from_utf8_lossy puts for an invalid byte.
CharReplacement == 65533
\* usize::MAX, what a usize below zero wraps to in a release build; scaled
\* to the largest integer of the checker, far above every list length.
UsizeMax == 2147483647
\* main.rs: the lines a mouse wheel step scrolls the list by.
ScrollLines == 3

VARIABLES
    \* build_threaded_list
    tpc,            \* position in build_threaded_list
    envelopes,      \* the input Vec<Envelope>
    parent,         \* Vec<Option<usize>>
    children,       \* HashMap<usize, Vec<usize>> (absent key = empty list)
    thread_root,    \* Vec<usize>
    loop_i,         \* the `i` of the root-finding for loop
    current,        \* the `current` of the path-compression loop
    root,           \* the `root` found for loop_i
    output,         \* the returned Vec<Envelope>
    \* the mail store and scan_all_mail
    files,          \* the message files under cur/ and new/, by path
    cache_file,     \* the persisted cache snapshot
    spc,            \* position in scan_all_mail
    file_paths,     \* the enumerated paths
    cache,          \* the map load_cache returned
    to_parse,       \* paths handed to the parse workers
    cached_envelopes, \* the cache hits, later extended with the new envelopes
    cache_hits,
    total,
    processed,      \* the AtomicUsize
    tasks,          \* per to_parse item: its worker's position, `current`, result
    progress_log,   \* the calls made to the progress callback, in order
    scan_result,    \* the Vec<Envelope> returned by scan_all_mail
    \* parse_email_address
    apc,            \* position of the call
    header,         \* the From/To header value
    address,        \* the returned Address, or the panic
    \* compute_tree_prefix
    tp_pc,              \* position of the call
    tp_depth,           \* its argument depth
    tp_is_last_sibling, \* its argument is_last_sibling
    tp_prefix,          \* the returned String, as a sequence of glyphs
    \* save_cache / load_cache of one envelope
    ser_pc,             \* position: the save, then the next scan
    ser_envelope,       \* the Envelope handed to save_cache
    ser_cached,         \* the CachedEnvelope as persisted
    ser_returned,       \* the Envelope the next scan returns for the file
    \* modify_maildir_flags
    fl_pc,              \* position of the call
    fl_name,            \* the file name of the path argument
    fl_add,             \* Option<char>, 0 for None
    fl_remove,          \* Option<char>, 0 for None
    fl_new_name,        \* new_filename
    fl_disk,            \* the name the file has on disk
    fl_renames,         \* the outcomes of the calls made to std::fs::rename, in order
    fl_result,          \* the Result returned to the caller
    \* parse_date, called on two Date headers
    dt_pc,              \* position: how many of the two have been parsed
    dt_dates,           \* the two dates the headers were written from
    dt_raw,             \* the two raw header values
    dt_out,             \* the two returned Strings
    \* decode_header_value, called on a Subject value
    dh_pc,              \* position of the call
    dh_value,           \* the header value
    dh_result,          \* the returned String, or the panic
    \* parse_mail_file's header loop
    hl_pc,              \* position: reading lines, or past the loop
    hl_lines,           \* the lines of the file
    hl_next,            \* the number of the line the reader yields next
    hl_current_header,  \* current_header, <<>> for None
    hl_current_value,   \* current_value
    hl_env,             \* the header fields collected for the envelope
    \* the compose view (src/app.rs, src/main.rs)
    view,               \* "List", "Compose", "Exit" (main returned an error) or "Panic"
    confirm_send,       \* App::confirm_send
    attachments,        \* compose.attachments: a sequence of paths
    attachment_selection, \* compose.attachment_selection
    keys_pressed,       \* the keys handled so far, oldest first
    sent_at,            \* the positions in keys_pressed of the keys on which send_message sent
    \* the message list (src/app.rs, src/main.rs)
    list_view,          \* App::view: "List" or "Search", or "Panic" after a panic
    focused_pane,       \* App::focused_pane: "List" or "Preview"
    app_envelopes,      \* App::envelopes
    original_envelopes, \* App::original_envelopes
    filtered_indices,   \* App::filtered_indices, 0-based indices into app_envelopes
    selected,           \* list_state.selected(): an index, -1 for None
    offset,             \* list_state.offset()
    list_height,        \* list_area.height
    search_query,       \* App::search_query
    is_search_results,  \* App::is_search_results
    show_unread_only,   \* App::show_unread_only
    pending_read_mark,  \* <<>> for None, <<id>> for Some((id, _))
    maildir,            \* the file names in the maildir directory
    cwd_in_maildir,     \* whether the working directory is that directory
    debug_build,        \* whether the build checks integer overflow
    last_mark           \* the last read mark that came due, and the ids it marked Seen

tvars == <<tpc, envelopes, parent, children, thread_root, loop_i, current, root, output>>

svars == <<files, cache_file, spc, file_paths, cache, to_parse, cached_envelopes,
           cache_hits, total, processed, tasks, progress_log, scan_result>>

avars == <<apc, header, address>>

pvars == <<tp_pc, tp_depth, tp_is_last_sibling, tp_prefix>>

evars == <<ser_pc, ser_envelope, ser_cached, ser_returned>>

fvars == <<fl_pc, fl_name, fl_add, fl_remove, fl_new_name, fl_disk, fl_renames, fl_result>>

dvars == <<dt_pc, dt_dates, dt_raw, dt_out>>

hvars == <<dh_pc, dh_value, dh_result>>

lvars == <<hl_pc, hl_lines, hl_next, hl_current_header, hl_current_value, hl_env>>

cvars == <<view, confirm_send, attachments, attachment_selection, keys_pressed, sent_at>>

lsvars == <<list_view, focused_pane, app_envelopes, original_envelopes, filtered_indices, selected, offset, list_height, search_query, is_search_results, show_unread_only, pending_read_mark, maildir, cwd_in_maildir, debug_build, last_mark>>

vars == <<tvars, svars, avars, pvars, evars, fvars, dvars, hvars, lvars, cvars, lsvars>>

\* What each component leaves alone.
notThread == <<svars, avars, pvars, evars, fvars, dvars, hvars, lvars, cvars, lsvars>>
notScan == <<tvars, avars, pvars, evars, fvars, dvars, hvars, lvars, cvars, lsvars>>
notAddr == <<tvars, svars, pvars, evars, fvars, dvars, hvars, lvars, cvars, lsvars>>
notPrefix == <<tvars, svars, avars, evars, fvars, dvars, hvars, lvars, cvars, lsvars>>
notSerde == <<tvars, svars, avars, pvars, fvars, dvars, hvars, lvars, cvars, lsvars>>
notFlags == <<tvars, svars, avars, pvars, evars, dvars, hvars, lvars, cvars, lsvars>>
notDate == <<tvars, svars, avars, pvars, evars, fvars, hvars, lvars, cvars, lsvars>>
notDecode == <<tvars, svars, avars, pvars, evars, fvars, dvars, lvars, cvars, lsvars>>
notHeaders == <<tvars, svars, avars, pvars, evars, fvars, dvars, hvars, cvars, lsvars>>
notCompose == <<tvars, svars, avars, pvars, evars, fvars, dvars, hvars, lvars, lsvars>>
notList == <<tvars, svars, avars, pvars, evars, fvars, dvars, hvars, lvars, cvars>>

\* ------------------------------------------------------------ sequences
RECURSIVE Flatten(_)
Flatten(ss) == IF ss = <<>> THEN <<>> ELSE Head(ss) \o Flatten(Tail(ss))

SetMax(S) == CHOOSE x \in S : \A y \in S : y <= x

Min(a, b) == IF a < b THEN a ELSE b

\* The sequences over S of length at most n.
RECURSIVE SeqsUpTo(_, _)
SeqsUpTo(S, n) ==
    IF n = 0 THEN {<<>>}
    ELSE LET shorter == SeqsUpTo(S, n - 1)
         IN shorter \cup {Append(q, x) : q \in {r \in shorter : Len(r) = n - 1}, x \in S}

\* The orders in which a hash map may yield the keys S.
Perms(S) ==
    {f \in [1..Cardinality(S) -> S] : \A a, b \in 1..Cardinality(S) : a # b => f[a] # f[b]}

\* slice::sort_by / par_sort_by, both stable, on the key function `key`:
\* x is placed after the elements that do not compare greater than it.
\* Ascending by key, or descending when `desc`.
SortsBefore(a, b, key, desc) == IF desc THEN key[b] < key[a] ELSE key[a] < key[b]

RECURSIVE StableInsert(_, _, _, _)
StableInsert(x, s, key, desc) ==
    IF s = <<>> THEN <<x>>
    ELSE IF SortsBefore(x, Head(s), key, desc) THEN <<x>> \o s
    ELSE <<Head(s)>> \o StableInsert(x, Tail(s), key, desc)

RECURSIVE StableSort(_, _, _)
StableSort(s, key, desc) ==
    IF s = <<>> THEN <<>>
    ELSE StableInsert(s[Len(s)], StableSort(SubSeq(s, 1, Len(s) - 1), key, desc), key, desc)

\* ------------------------------------------------------------ header strings
\* A string is the sequence of its characters' code points.  Offsets are
\* Rust's: 0-based, -1 for None (all characters of the model are ASCII, so
\* byte offsets are character offsets).
IsWhitespace(c) == c \in {CharTab, 10, 11, 12, 13, CharSpace}

RECURSIVE TrimStartIn(_, _)
TrimStartIn(s, cs) ==
    IF s # <<>> /\ Head(s) \in cs THEN TrimStartIn(Tail(s), cs) ELSE s

RECURSIVE TrimEndIn(_, _)
TrimEndIn(s, cs) ==
    IF s # <<>> /\ s[Len(s)] \in cs THEN TrimEndIn(SubSeq(s, 1, Len(s) - 1), cs) ELSE s

\* str::trim
Trim(s) == TrimEndIn(TrimStartIn(s, {c \in 9..32 : IsWhitespace(c)}), {c \in 9..32 : IsWhitespace(c)})

\* str::trim_matches(c)
TrimMatches(s, c) == TrimEndIn(TrimStartIn(s, {c}), {c})

\* str::find(pat) for a pattern string: the offset of the first match.
IsMatchAt(s, pat, off) ==
    /\ off + Len(pat) <= Len(s)
    /\ \A k \in 1..Len(pat) : s[off + k] = pat[k]

Find(s, pat) ==
    LET hits == {off \in 0..Len(s) : IsMatchAt(s, pat, off)}
    IN IF hits = {} THEN -1 ELSE CHOOSE off \in hits : \A o \in hits : off <= o

\* &s[from..to]: [panic |-> TRUE] when from > to or to > len, as the slice
\* index does.
Slice(s, from, to) ==
    IF from > to \/ to > Len(s) THEN [panic |-> TRUE, str |-> <<>>]
    ELSE [panic |-> FALSE, str |-> SubSeq(s, from + 1, to)]

\* str::replace(from, to): every non-overlapping match, left to right.
RECURSIVE Replace(_, _, _)
Replace(s, from, to) ==
    IF s = <<>> THEN <<>>
    ELSE IF from # <<>> /\ IsMatchAt(s, from, 0)
    THEN to \o Replace(SubSeq(s, Len(from) + 1, Len(s)), from, to)
    ELSE <<Head(s)>> \o Replace(Tail(s), from, to)

\* str::splitn(3, '?')
SplitN3(s, c) ==
    LET a == Find(s, <<c>>)
        rest == IF a = -1 THEN <<>> ELSE SubSeq(s, a + 2, Len(s))
        b == Find(rest, <<c>>)
    IN IF a = -1 THEN <<s>>
       ELSE IF b = -1 THEN <<SubSeq(s, 1, a), rest>>
       ELSE <<SubSeq(s, 1, a), SubSeq(rest, 1, b), SubSeq(rest, b + 2, Len(rest))>>

\* char::to_uppercase on ASCII
ToUpper(s) == [k \in 1..Len(s) |-> IF s[k] >= 97 /\ s[k] <= 122 THEN s[k] - 32 ELSE s[k]]

\* The value of a hexadecimal digit, -1 for another character.
HexVal(c) ==
    IF c >= 48 /\ c <= 57 THEN c - 48
    ELSE IF c >= 65 /\ c <= 70 THEN c - 55
    ELSE IF c >= 97 /\ c <= 102 THEN c - 87
    ELSE -1

\* u8::from_str_radix(hex, 16) on at most two characters: -1 for Err.  A
\* leading '+' is accepted.
ParseHexByte(hex) ==
    LET digits == IF hex # <<>> /\ Head(hex) = CharPlus THEN Tail(hex) ELSE hex
    IN IF digits = <<>> \/ \E k \in 1..Len(digits) : HexVal(digits[k]) = -1 THEN -1
       ELSE IF Len(digits) = 1 THEN HexVal(digits[1])
       ELSE 16 * HexVal(digits[1]) + HexVal(digits[2])

\* decode_quoted_printable
RECURSIVE DecodeQuotedPrintable(_)
DecodeQuotedPrintable(s) ==
    IF s = <<>> THEN <<>>
    ELSE IF Head(s) = CharEq
    THEN LET hex == SubSeq(s, 2, Min(Len(s), 3))
             byte == ParseHexByte(hex)
         IN (IF byte # -1 THEN <<byte>> ELSE <<>>)
                \o DecodeQuotedPrintable(SubSeq(s, 2 + Len(hex), Len(s)))
    ELSE IF Head(s) = CharUnderscore THEN <<CharSpace>> \o DecodeQuotedPrintable(Tail(s))
    ELSE <<Head(s)>> \o DecodeQuotedPrintable(Tail(s))

\* The position of a character in the base64 alphabet, -1 when it is not in
\* it.
Base64Val(c) ==
    IF c >= 65 /\ c <= 90 THEN c - 65
    ELSE IF c >= 97 /\ c <= 122 THEN c - 71
    ELSE IF c >= 48 /\ c <= 57 THEN c + 4
    ELSE IF c = CharPlus THEN 62
    ELSE IF c = 47 THEN 63
    ELSE -1

RECURSIVE Pow2(_)
Pow2(n) == IF n = 0 THEN 1 ELSE 2 * Pow2(n - 1)

\* decode_base64: the output bytes.  buffer holds fewer than 8 bits between
\* characters, so the u32 shift never loses a bit.
RECURSIVE Base64Bytes(_, _, _)
Base64Bytes(s, buffer, bits) ==
    IF s = <<>> THEN <<>>
    ELSE LET val == Base64Val(Head(s))
         IN IF val = -1 THEN Base64Bytes(Tail(s), buffer, bits)
            ELSE LET buf == buffer * 64 + val
                     b == bits + 6
                 IN IF b >= 8
                    THEN <<(buf \div Pow2(b - 8)) % 256>>
                            \o Base64Bytes(Tail(s), buf % Pow2(b - 8), b - 8)
                    ELSE Base64Bytes(Tail(s), buf, b)

\* String::from_utf8_lossy on ASCII bytes and two-byte sequences; a byte that
\* starts neither yields U+FFFD (three- and four-byte sequences are not among
\* the inputs).
RECURSIVE Utf8Lossy(_)
Utf8Lossy(bytes) ==
    IF bytes = <<>> THEN <<>>
    ELSE IF Head(bytes) < 128 THEN <<Head(bytes)>> \o Utf8Lossy(Tail(bytes))
    ELSE IF /\ Head(bytes) >= 194 /\ Head(bytes) <= 223 /\ Len(bytes) >= 2
            /\ bytes[2] >= 128 /\ bytes[2] <= 191
    THEN <<(Head(bytes) - 192) * 64 + (bytes[2] - 128)>> \o Utf8Lossy(Tail(Tail(bytes)))
    ELSE <<CharReplacement>> \o Utf8Lossy(Tail(bytes))

DecodeBase64(s) == Utf8Lossy(Base64Bytes(s, 0, 0))

\* decode_header_value: the loop over the encoded-words of `result`; a
\* panicking slice ends it with [panic |-> TRUE].
RECURSIVE DecodeLoop(_)
DecodeLoop(result) ==
    LET start == Find(result, <<CharEq, CharQm>>)
        end == IF start = -1 THEN -1
               ELSE Find(SubSeq(result, start + 1, Len(result)), <<CharQm, CharEq>>)
    IN IF start = -1 \/ end = -1 THEN [panic |-> FALSE, str |-> result]
       ELSE LET encoded == SubSeq(result, start + 1, start + end + 2)
                inner == Slice(encoded, 2, Len(encoded) - 2)
                parts == SplitN3(inner.str, CharQm)
                encoding == ToUpper(parts[2])
                text == parts[3]
                decoded == IF encoding = <<81>> THEN DecodeQuotedPrintable(text)
                           ELSE IF encoding = <<66>> THEN DecodeBase64(text)
                           ELSE text
            IN IF inner.panic THEN [panic |-> TRUE, str |-> <<>>]
               ELSE IF Len(parts) = 3 THEN DecodeLoop(Replace(result, encoded, decoded))
               ELSE [panic |-> FALSE, str |-> result]

DecodeHeaderValue(s) ==
    LET looped == DecodeLoop(s)
    IN IF looped.panic THEN looped
       ELSE [panic |-> FALSE, str |-> Replace(looped.str, <<CharUnderscore>>, <<CharSpace>>)]

\* parse_email_address: the Address (name <<>> of length 0 for None, else
\* <<name>>), or the panic of a slice.
ParseEmailAddress(value) ==
    LET s == Trim(value)
        start == Find(s, <<CharLt>>)
        end == Find(s, <<CharGt>>)
    IN IF start # -1 /\ end # -1
       THEN LET inside == Slice(s, start + 1, end)
                name == Trim(TrimMatches(Trim(SubSeq(s, 1, start)), CharQuote))
                decodedName == DecodeHeaderValue(name)
            IN IF inside.panic THEN [panic |-> TRUE, name |-> <<>>, addr |-> <<>>]
               ELSE IF name = <<>>
               THEN [panic |-> FALSE, name |-> <<>>, addr |-> Trim(inside.str)]
               ELSE IF decodedName.panic THEN [panic |-> TRUE, name |-> <<>>, addr |-> <<>>]
               ELSE [panic |-> FALSE, name |-> <<decodedName.str>>, addr |-> Trim(inside.str)]
       ELSE [panic |-> FALSE, name |-> <<>>, addr |-> s]

\* parse_mail_file line 248/251: the From (or To) header value is parsed.
ParseAddress ==
    /\ apc = "start"
    /\ address' = ParseEmailAddress(header)
    /\ apc' = "done"
    /\ UNCHANGED header
    /\ UNCHANGED notAddr

NextAddr == ParseAddress

\* Header values over the characters the parser distinguishes, and the
\* letter a for the text between them.
AddrChars == {CharLt, CharGt, CharQuote, CharSpace, CharEq, CharQm, 97}

AddrOff ==
    /\ apc = "off"
    /\ header = <<>>
    /\ address = [panic |-> FALSE, name |-> <<>>, addr |-> <<>>]

PrefixOff ==
    /\ tp_pc = "off"
    /\ tp_depth = 0
    /\ tp_is_last_sibling = FALSE
    /\ tp_prefix = <<>>

SerdeOff ==
    /\ ser_pc = "off"
    /\ ser_envelope = <<>>
    /\ ser_cached = <<>>
    /\ ser_returned = <<>>

FlagsOff ==
    /\ fl_pc = "off"
    /\ fl_name = <<>>
    /\ fl_add = 0
    /\ fl_remove = 0
    /\ fl_new_name = <<>>
    /\ fl_disk = <<>>
    /\ fl_renames = <<>>
    /\ fl_result = [ok |-> FALSE, path |-> <<>>]

DateOff ==
    /\ dt_pc = "off"
    /\ dt_dates = <<>>
    /\ dt_raw = <<>>
    /\ dt_out = <<>>

\* The components that are not scan, threading, address or prefix.
LaterOff == SerdeOff /\ FlagsOff /\ DateOff

DecodeOff ==
    /\ dh_pc = "off"
    /\ dh_value = <<>>
    /\ dh_result = [panic |-> FALSE, str |-> <<>>]
HeadersOff ==
    /\ hl_pc = "off"
    /\ hl_lines = <<>>
    /\ hl_next = 0
    /\ hl_current_header = <<>>
    /\ hl_current_value = <<>>
    /\ hl_env = <<>>
ComposeOff ==
    /\ view = "Off"
    /\ confirm_send = FALSE
    /\ attachments = <<>>
    /\ attachment_selection = 0
    /\ keys_pressed = <<>>
    /\ sent_at = {}
ListOff ==
    /\ list_view = "Off"
    /\ focused_pane = "List"
    /\ app_envelopes = <<>>
    /\ original_envelopes = <<>>
    /\ filtered_indices = <<>>
    /\ selected = -1
    /\ offset = 0
    /\ list_height = 0
    /\ search_query = <<>>
    /\ is_search_results = FALSE
    /\ show_unread_only = FALSE
    /\ pending_read_mark = <<>>
    /\ maildir = {}
    /\ cwd_in_maildir = FALSE
    /\ debug_build = FALSE
    /\ last_mark = <<>>

\* ------------------------------------------------------------ the mail store
Paths == 1..MaxPaths

\* A message file: its modification time (-1 when fs::metadata / modified /
\* duration_since fails, e.g. a time before the epoch) and its content
\* (0: File::open or reading a line fails, so parse_mail_file returns Err).
NoFile == [present |-> FALSE, mtime |-> 0, content |-> 0]
FileStates ==
    {NoFile} \cup {[present |-> TRUE, mtime |-> m, content |-> c] :
                      m \in (-1)..MaxMtime, c \in 0..MaxContent}

\* cache.rs get_file_mtime: Option<u64>, -1 for None.
GetFileMtime(file) == IF file.present /\ file.mtime >= 0 THEN file.mtime ELSE -1

\* Option::unwrap_or(0) on a modification time.
UnwrapOrZero(m) == IF m = -1 THEN 0 ELSE m

\* parse_mail_file: <<envelope>> for Ok, <<>> for Err.  `content` stands for
\* every header-derived field.  parsed_mtime is a history field, not a field
\* of the code's Envelope: the modification time (unwrap_or(0)) the file had
\* when it was parsed.
ParseMailFile(path, file) ==
    IF ~file.present \/ file.content = 0 THEN <<>>
    ELSE <<[file_path |-> path, content |-> file.content,
            parsed_mtime |-> UnwrapOrZero(GetFileMtime(file))]>>

\* scan_all_mail lines 98-110: the regular files of cur/ and new/ (read_dir
\* order is unspecified; ascending path order is used).
RECURSIVE EnumerateFrom(_, _)
EnumerateFrom(fs, p) ==
    IF p > MaxPaths THEN <<>>
    ELSE (IF fs[p].present THEN <<p>> ELSE <<>>) \o EnumerateFrom(fs, p + 1)

EnumerateFiles(fs) == EnumerateFrom(fs, 1)

\* ------------------------------------------------------------ the scan cache
NoCacheFile == [state |-> "missing", version |-> 0, envelopes |-> <<>>]

\* A variant that takes a snapshot of any version.
LoadCacheAnyVersion(cf) == IF cf.state # "ok" THEN <<>> ELSE cf.envelopes

\* load_cache: the empty map unless the file deserializes with the running
\* version.
LoadCache(cf) ==
    IF cf.state # "ok" THEN <<>>
    ELSE IF cf.version # CACHE_VERSION THEN <<>>
    ELSE cf.envelopes

\* save_cache lines 74-86: the map built from the envelopes, each stamped
\* with its file's modification time at the time of the save.
RECURSIVE BuildCacheMap(_, _, _)
BuildCacheMap(envs, fs, k) ==
    IF k = 0 THEN <<>>
    ELSE LET before == BuildCacheMap(envs, fs, k - 1)
             env == envs[k]
             entry == [envelope |-> env,
                       mtime |-> UnwrapOrZero(GetFileMtime(fs[env.file_path]))]
         IN [p \in (DOMAIN before) \cup {env.file_path} |->
                IF p = env.file_path THEN entry ELSE before[p]]

\* A variant that adds the new entries to the snapshot it finds.
SaveCacheMerge(cf, envs, fs, outcome) ==
    LET fresh == BuildCacheMap(envs, fs, Len(envs))
        old == IF cf.state = "ok" THEN cf.envelopes ELSE <<>>
    IN IF outcome = "saved"
       THEN [state |-> "ok", version |-> CACHE_VERSION,
             envelopes |-> [p \in (DOMAIN old) \cup (DOMAIN fresh) |->
                               IF p \in DOMAIN fresh THEN fresh[p] ELSE old[p]]]
       ELSE cf

\* save_cache: the cache file after the call.  `outcome` is "saved", "failed"
\* (no cache directory, create_dir_all or File::create fails: nothing is
\* written) or "torn" (File::create truncated the file, the write failed).
SaveCache(cf, envs, fs, outcome) ==
    IF outcome = "saved"
    THEN [state |-> "ok", version |-> CACHE_VERSION,
          envelopes |-> BuildCacheMap(envs, fs, Len(envs))]
    ELSE IF outcome = "torn"
    THEN [state |-> "corrupt", version |-> 0, envelopes |-> <<>>]
    ELSE cf

\* A variant that trusts the cache only when it holds more entries than
\* there are files.
QuickCacheCheckLess(file_count, c) == file_count < Cardinality(DOMAIN c)

\* A variant that also trusts a cache with more entries than there are files.
QuickCacheCheckAtMost(file_count, c) == file_count <= Cardinality(DOMAIN c)

\* quick_cache_check
QuickCacheCheck(file_count, c) == file_count = Cardinality(DOMAIN c)

\* A variant that reads an unreadable modification time as 0, the way
\* save_cache does.
IsCacheValidUnwrap(cached, file) == cached.mtime = UnwrapOrZero(GetFileMtime(file))

\* A variant that trusts no entry.
IsCacheValidNever(cached, file) == FALSE

\* is_cache_valid
IsCacheValid(cached, file) ==
    LET current_mtime == GetFileMtime(file)
    IN IF current_mtime # -1 THEN cached.mtime = current_mtime ELSE FALSE

\* The values of a map, in ascending key order (the hash map's order is
\* unspecified).
RECURSIVE CacheValuesFrom(_, _)
CacheValuesFrom(c, p) ==
    IF p > MaxPaths THEN <<>>
    ELSE (IF p \in DOMAIN c THEN <<c[p].envelope>> ELSE <<>>) \o CacheValuesFrom(c, p + 1)

\* A variant of the slow path that takes every cached file as a hit.
RECURSIVE SlowPathNoRecheck(_, _, _, _)
SlowPathNoRecheck(paths, c, fs, k) ==
    IF k = 0 THEN [to_parse |-> <<>>, from_cache |-> <<>>]
    ELSE LET before == SlowPathNoRecheck(paths, c, fs, k - 1)
         IN IF paths[k] \in DOMAIN c
            THEN [before EXCEPT !.from_cache = Append(@, c[paths[k]].envelope)]
            ELSE [before EXCEPT !.to_parse = Append(@, paths[k])]

\* get_files_to_parse, slow path: the (parse, cached) pair of each file,
\* separated into the two vectors.
RECURSIVE SlowPath(_, _, _, _)
SlowPath(paths, c, fs, k) ==
    IF k = 0 THEN [to_parse |-> <<>>, from_cache |-> <<>>]
    ELSE LET before == SlowPath(paths, c, fs, k - 1)
             path == paths[k]
             hit == path \in DOMAIN c /\ IsCacheValid(c[path], fs[path])
         IN IF hit
            THEN [before EXCEPT !.from_cache = Append(@, c[path].envelope)]
            ELSE [before EXCEPT !.to_parse = Append(@, path)]

\* get_files_to_parse
GetFilesToParse(paths, c, fs) ==
    IF QuickCacheCheck(Len(paths), c)
    THEN [to_parse |-> <<>>, from_cache |-> CacheValuesFrom(c, 1)]
    ELSE SlowPath(paths, c, fs, Len(paths))

\* ------------------------------------------------------------ scan_all_mail
\* A variant in which one failed parse loses the envelopes of all files.
NewEnvelopesAllOrNothing(ts, k) ==
    IF \E j \in 1..k : ts[j].result = <<>> THEN <<>>
    ELSE [j \in 1..k |-> ts[j].result[1]]

\* The new envelopes, in to_parse order (collect keeps the order).
RECURSIVE NewEnvelopes(_, _)
NewEnvelopes(ts, k) ==
    IF k = 0 THEN <<>> ELSE NewEnvelopes(ts, k - 1) \o ts[k].result

ScanLocalsReset ==
    /\ file_paths' = <<>>
    /\ cache' = <<>>
    /\ to_parse' = <<>>
    /\ cached_envelopes' = <<>>
    /\ cache_hits' = 0
    /\ total' = 0
    /\ processed' = 0
    /\ tasks' = <<>>
    /\ progress_log' = <<>>
    /\ scan_result' = <<>>

\* The store changes between scans: a file is written (created, rewritten
\* or touched) ...
WriteFile ==
    /\ spc \in {"idle", "done"}
    /\ \E p \in Paths : \E f \in FileStates \ {NoFile, files[p]} :
          files' = [files EXCEPT ![p] = f]
    /\ spc' = "idle"
    /\ ScanLocalsReset
    /\ UNCHANGED cache_file
    /\ UNCHANGED notScan

\* ... or deleted.
DeleteFile ==
    /\ spc \in {"idle", "done"}
    /\ \E p \in Paths :
          /\ files[p].present
          /\ files' = [files EXCEPT ![p] = NoFile]
    /\ spc' = "idle"
    /\ ScanLocalsReset
    /\ UNCHANGED cache_file
    /\ UNCHANGED notScan

\* Lines 95-122: enumerate, load the cache, plan, report the cache hits.
ScanStart ==
    /\ spc \in {"idle", "done"}
    /\ LET paths == EnumerateFiles(files)
           loaded == LoadCache(cache_file)
           plan == GetFilesToParse(paths, loaded, files)
       IN /\ file_paths' = paths
          /\ total' = Len(paths)
          /\ cache' = loaded
          /\ to_parse' = plan.to_parse
          /\ cached_envelopes' = plan.from_cache
          /\ cache_hits' = Len(plan.from_cache)
          /\ progress_log' = <<[current |-> Len(plan.from_cache), total |-> Len(paths)]>>
          /\ tasks' = [k \in 1..Len(plan.to_parse) |->
                          [st |-> "todo", current |-> 0, result |-> <<>>]]
    /\ processed' = 0
    /\ scan_result' = <<>>
    /\ spc' = "parse"
    /\ UNCHANGED <<files, cache_file>>
    /\ UNCHANGED notScan

\* Lines 131-134: a free worker parses one file and counts it.
ParseFile ==
    /\ spc = "parse"
    /\ Cardinality({k \in 1..Len(tasks) : tasks[k].st = "counted"}) < MaxWorkers
    /\ \E k \in 1..Len(tasks) :
          /\ tasks[k].st = "todo"
          /\ tasks' = [tasks EXCEPT ![k] =
                          [st |-> "counted", current |-> processed,
                           result |-> ParseMailFile(to_parse[k], files[to_parse[k]])]]
    /\ processed' = processed + 1
    /\ UNCHANGED <<files, cache_file, spc, file_paths, cache, to_parse, cached_envelopes,
                   cache_hits, total, progress_log, scan_result>>
    /\ UNCHANGED notScan

\* Lines 135-139: the worker reports progress if its count asks for it.
ReportProgress ==
    /\ spc = "parse"
    /\ \E k \in 1..Len(tasks) :
          /\ tasks[k].st = "counted"
          /\ tasks' = [tasks EXCEPT ![k].st = "done"]
          /\ progress_log' =
                IF tasks[k].current % ReportEvery = 0 \/ tasks[k].current = Len(to_parse) - 1
                THEN Append(progress_log,
                            [current |-> cache_hits + tasks[k].current, total |-> total])
                ELSE progress_log
    /\ UNCHANGED <<files, cache_file, spc, file_paths, cache, to_parse, cached_envelopes,
                   cache_hits, total, processed, scan_result>>
    /\ UNCHANGED notScan

\* A variant that does not wait for the parse workers.
ScanFinishNoJoin ==
    /\ spc = "parse"
    /\ LET merged == cached_envelopes \o NewEnvelopes(tasks, Len(tasks))
       IN /\ cached_envelopes' = merged
          /\ scan_result' = merged
          /\ \E outcome \in {"saved", "failed", "torn"} :
                cache_file' = SaveCache(cache_file, merged, files, outcome)
    /\ progress_log' = Append(progress_log, [current |-> total, total |-> total])
    /\ spc' = "done"
    /\ UNCHANGED <<files, file_paths, cache, to_parse, cache_hits, total, processed, tasks>>
    /\ UNCHANGED notScan

\* Lines 143-151: after the workers joined, merge, report the end, save the
\* cache (its result is ignored) and return.
ScanFinish ==
    /\ spc = "parse"
    /\ \A k \in 1..Len(tasks) : tasks[k].st = "done"
    /\ LET merged == cached_envelopes \o NewEnvelopes(tasks, Len(tasks))
       IN /\ cached_envelopes' = merged
          /\ scan_result' = merged
          /\ \E outcome \in {"saved", "failed", "torn"} :
                cache_file' = SaveCache(cache_file, merged, files, outcome)
    /\ progress_log' = Append(progress_log, [current |-> total, total |-> total])
    /\ spc' = "done"
    /\ UNCHANGED <<files, file_paths, cache, to_parse, cache_hits, total, processed, tasks>>
    /\ UNCHANGED notScan

NextScan == WriteFile \/ DeleteFile \/ ScanStart \/ ParseFile \/ ReportProgress \/ ScanFinish

\* The scanner is not running and nothing of it is observed.
ScanOff ==
    /\ files = [p \in Paths |-> NoFile]
    /\ cache_file = NoCacheFile
    /\ spc = "idle"
    /\ file_paths = <<>>
    /\ cache = <<>>
    /\ to_parse = <<>>
    /\ cached_envelopes = <<>>
    /\ cache_hits = 0
    /\ total = 0
    /\ processed = 0
    /\ tasks = <<>>
    /\ progress_log = <<>>
    /\ scan_result = <<>>

ThreadOff ==
    /\ tpc = "off"
    /\ envelopes = <<>>
    /\ parent = <<>>
    /\ children = <<>>
    /\ thread_root = <<>>
    /\ loop_i = 0
    /\ current = 0
    /\ root = 0
    /\ output = <<>>

\* An empty store and no cache file.
InitScan == ScanOff /\ ThreadOff /\ AddrOff /\ PrefixOff /\ LaterOff /\ DecodeOff /\ HeadersOff /\ ComposeOff /\ ListOff

SpecScan == InitScan /\ [][NextScan]_vars

\* ---- scans that start from any cache file
\* The cache files a scan can find: none, one that cannot be opened, one that
\* does not deserialize, or a snapshot written by this or another version of
\* the program, with any entries.
CacheEntries ==
    {[envelope |-> [file_path |-> p, content |-> c, parsed_mtime |-> m], mtime |-> m] :
        p \in Paths, c \in 1..MaxContent, m \in 0..MaxMtime}

CacheMaps ==
    UNION {{f \in [D -> CacheEntries] : \A p \in D : f[p].envelope.file_path = p} :
              D \in SUBSET Paths}

CacheFiles ==
    {[state |-> st, version |-> 0, envelopes |-> <<>>] :
        st \in {"missing", "unreadable", "corrupt"}}
    \cup {[state |-> "ok", version |-> v, envelopes |-> m] :
              v \in (CACHE_VERSION - 1)..(CACHE_VERSION + 1), m \in CacheMaps}

InitLoad ==
    /\ ListOff
    /\ ComposeOff
    /\ HeadersOff
    /\ DecodeOff
    /\ LaterOff
    /\ ThreadOff
    /\ AddrOff
    /\ PrefixOff
    /\ files \in [Paths -> FileStates]
    /\ cache_file \in CacheFiles
    /\ spc = "idle"
    /\ file_paths = <<>>
    /\ cache = <<>>
    /\ to_parse = <<>>
    /\ cached_envelopes = <<>>
    /\ cache_hits = 0
    /\ total = 0
    /\ processed = 0
    /\ tasks = <<>>
    /\ progress_log = <<>>
    /\ scan_result = <<>>

NextLoad == ScanStart \/ ParseFile \/ ReportProgress \/ ScanFinish

SpecLoad == InitLoad /\ [][NextLoad]_vars

InitAddr ==
    /\ ListOff
    /\ ComposeOff
    /\ HeadersOff
    /\ DecodeOff
    /\ LaterOff
    /\ ThreadOff
    /\ ScanOff
    /\ PrefixOff
    /\ apc = "start"
    /\ header \in SeqsUpTo(AddrChars, MaxHeaderLen)
    /\ address = [panic |-> FALSE, name |-> <<>>, addr |-> <<>>]

SpecAddr == InitAddr /\ [][NextAddr]_vars

\* --------------------------------------------------- build_threaded_list
\* 1. message_id -> index.  A parallel collect into a HashMap inserts the
\* pairs in input order, so the last envelope carrying an id owns it.
\* 0 when no envelope carries the id.
IdToIdx(envs, id) ==
    LET S == {k \in 1..Len(envs) : envs[k].message_id = id}
    IN IF id = 0 \/ S = {} THEN 0 ELSE SetMax(S)

\* 2. The references fallback, scanned from entry k down to the first.
RECURSIVE RefParent(_, _, _)
RefParent(envs, i, k) ==
    IF k = 0 THEN 0
    ELSE LET p == IdToIdx(envs, envs[i].references[k])
         IN IF p # 0 /\ p # i THEN p ELSE RefParent(envs, i, k - 1)

\* A variant that scans the references from first to last.
RECURSIVE RefParentForward(_, _, _)
RefParentForward(envs, i, k) ==
    IF k > Len(envs[i].references) THEN 0
    ELSE LET p == IdToIdx(envs, envs[i].references[k])
         IN IF p # 0 /\ p # i THEN p ELSE RefParentForward(envs, i, k + 1)

ParentOfOldestRef(envs, i) ==
    LET p == IdToIdx(envs, envs[i].in_reply_to)
    IN IF p # 0 /\ p # i THEN p ELSE RefParentForward(envs, i, 1)

ParentOf(envs, i) ==
    LET p == IdToIdx(envs, envs[i].in_reply_to)
    IN IF p # 0 /\ p # i THEN p ELSE RefParent(envs, i, Len(envs[i].references))

\* 3. children of p: the fold/reduce keeps them in index order, then the
\* stable sort by date ("" for a missing date) is applied.
RECURSIVE IndexList(_, _, _)
IndexList(par, p, k) ==
    IF k = 0 THEN <<>>
    ELSE IndexList(par, p, k - 1) \o (IF par[k] = p THEN <<k>> ELSE <<>>)

\* A variant that leaves the children in input order.
ChildrenOfUnsorted(envs, par, p) == IndexList(par, p, Len(par))

ChildrenOf(envs, par, p) ==
    StableSort(IndexList(par, p, Len(par)), [k \in 1..Len(envs) |-> envs[k].date], FALSE)

\* 4. The walk to the root with its hop cap.
RECURSIVE WalkToRoot(_, _, _)
WalkToRoot(par, cur, steps) ==
    IF par[cur] = 0 THEN cur
    ELSE IF steps + 1 > HopCap THEN par[cur]
    ELSE WalkToRoot(par, par[cur], steps + 1)

\* 6. The freshest date of the thread keyed by r.
ThreadLastDate(envs, troot, r) ==
    LET ds == {envs[k].date : k \in {m \in 1..Len(envs) : troot[m] = r}} \ {0}
    IN IF ds = {} THEN 0 ELSE SetMax(ds)

\* collect_thread_dfs: the (idx, depth, is_last) triples of idx's subtree.
RECURSIVE CollectThreadDfs(_, _, _, _)
RECURSIVE CollectKids(_, _, _, _)
CollectThreadDfs(idx, depth, is_last, kidsOf) ==
    <<[idx |-> idx, depth |-> depth, is_last |-> is_last]>>
        \o CollectKids(kidsOf[idx], 1, depth + 1, kidsOf)
CollectKids(kids, k, depth, kidsOf) ==
    IF k > Len(kids) THEN <<>>
    ELSE CollectThreadDfs(kids[k], depth, k = Len(kids), kidsOf)
            \o CollectKids(kids, k + 1, depth, kidsOf)

\* A variant that takes the message just before as the parent.
ParentPosPrevious(messages, pp, raw_depth) == pp

\* compute_display_depths: the position of the nearest earlier message with
\* a smaller raw depth (the first message when there is none).
RECURSIVE ParentPos(_, _, _)
ParentPos(messages, pp, raw_depth) ==
    IF pp > 1 /\ messages[pp].depth >= raw_depth
    THEN ParentPos(messages, pp - 1, raw_depth)
    ELSE pp

\* A variant without the cap at 3.
RECURSIVE DisplayDepthsFromUncapped(_, _, _, _)
DisplayDepthsFromUncapped(messages, kidsOf, pos, dd) ==
    IF pos > Len(messages) THEN dd
    ELSE LET raw_depth == messages[pos].depth
             pp == ParentPos(messages, pos - 1, raw_depth)
             parent_display_depth == dd[pp]
             num_children == Len(kidsOf[messages[pp].idx])
             d == IF raw_depth = 0 THEN 0
                  ELSE IF num_children > 1 THEN parent_display_depth + 1
                  ELSE IF parent_display_depth = 0 THEN 1
                  ELSE parent_display_depth
         IN DisplayDepthsFromUncapped(messages, kidsOf, pos + 1, Append(dd, d))

\* A variant without the floor of 1 for an only child.
RECURSIVE DisplayDepthsFromNoFloor(_, _, _, _)
DisplayDepthsFromNoFloor(messages, kidsOf, pos, dd) ==
    IF pos > Len(messages) THEN dd
    ELSE LET raw_depth == messages[pos].depth
             pp == ParentPos(messages, pos - 1, raw_depth)
             parent_display_depth == dd[pp]
             num_children == Len(kidsOf[messages[pp].idx])
             d == IF raw_depth = 0 THEN 0
                  ELSE IF num_children > 1 THEN Min(parent_display_depth + 1, 3)
                  ELSE parent_display_depth
         IN DisplayDepthsFromNoFloor(messages, kidsOf, pos + 1, Append(dd, d))

RECURSIVE DisplayDepthsFrom(_, _, _, _)
DisplayDepthsFrom(messages, kidsOf, pos, dd) ==
    IF pos > Len(messages) THEN dd
    ELSE LET raw_depth == messages[pos].depth
             pp == ParentPos(messages, pos - 1, raw_depth)
             parent_display_depth == dd[pp]
             num_children == Len(kidsOf[messages[pp].idx])
             d == IF raw_depth = 0 THEN 0
                  ELSE IF num_children > 1 THEN Min(parent_display_depth + 1, 3)
                  ELSE IF parent_display_depth = 0 THEN 1
                  ELSE parent_display_depth
         IN DisplayDepthsFrom(messages, kidsOf, pos + 1, Append(dd, d))

ComputeDisplayDepths(messages, kidsOf) ==
    IF messages = <<>> THEN <<>>
    ELSE DisplayDepthsFrom(messages, kidsOf, 2, <<0>>)

\* compute_tree_prefix: the prefix as a sequence of glyphs.  "|  " stands for
\* the vertical-continuation glyph, "L- " for the last-branch glyph and
\* "+- " for the mid-branch glyph.
RECURSIVE Decimal(_)
Decimal(n) ==
    LET digit == <<"0", "1", "2", "3", "4", "5", "6", "7", "8", "9">>[(n % 10) + 1]
    IN IF n < 10 THEN <<digit>> ELSE Append(Decimal(n \div 10), digit)

\* A variant that falls back to the bracketed number from depth 3 on.
ComputeTreePrefixEarlyFallback(depth, is_last_sibling) ==
    IF depth = 0 THEN <<>>
    ELSE IF depth > 2 THEN <<"[">> \o Decimal(depth) \o <<"] ">>
    ELSE [k \in 1..(depth - 1) |-> "|  "]
            \o (IF is_last_sibling THEN <<"L- ">> ELSE <<"+- ">>)

ComputeTreePrefix(depth, is_last_sibling) ==
    IF depth = 0 THEN <<>>
    ELSE IF depth > 3 THEN <<"[">> \o Decimal(depth) \o <<"] ">>
    ELSE [k \in 1..(depth - 1) |-> "|  "]
            \o (IF is_last_sibling THEN <<"L- ">> ELSE <<"+- ">>)

\* 8. One thread's result: the DFS from root_idx, annotated.
ThreadResult(envs, kidsOf, root_idx) ==
    LET thread_messages == CollectThreadDfs(root_idx, 0, TRUE, kidsOf)
        display_depths == ComputeDisplayDepths(thread_messages, kidsOf)
        thread_len == Len(thread_messages)
    IN [k \in 1..thread_len |->
          [envs[thread_messages[k].idx] EXCEPT
              !.thread_depth = display_depths[k],
              !.display_depth = display_depths[k],
              !.is_last_in_thread = (k = thread_len),
              !.tree_prefix = ComputeTreePrefix(display_depths[k],
                                                thread_messages[k].is_last)]]

\* 7. The roots: the keys of the threads map in the map's iteration order,
\* stable-sorted by freshest date, descending.
SortedRoots(envs, troot, keyOrder) ==
    StableSort(keyOrder, [r \in 1..Len(envs) |-> ThreadLastDate(envs, troot, r)], TRUE)

\* An envelope as the scanner hands it to build_threaded_list.
Envelope(id, mid, irt, refs, date) ==
    [id |-> id, message_id |-> mid, in_reply_to |-> irt, references |-> refs,
     date |-> date, thread_depth |-> 0, display_depth |-> 0,
     is_last_in_thread |-> FALSE, tree_prefix |-> <<>>]

\* ---- the actions of build_threaded_list
\* Lines 12-80: the empty input is returned at once; otherwise the parents
\* and the sorted children are built.
BuildParents ==
    /\ tpc = "start"
    /\ IF envelopes = <<>>
       THEN /\ tpc' = "done"
            /\ output' = envelopes
            /\ UNCHANGED <<parent, children, thread_root, loop_i>>
       ELSE LET par == [k \in 1..Len(envelopes) |-> ParentOf(envelopes, k)]
            IN /\ parent' = par
               /\ children' = [k \in 1..Len(envelopes) |-> ChildrenOf(envelopes, par, k)]
               /\ thread_root' = [k \in 1..Len(envelopes) |-> k]
               /\ loop_i' = 1
               /\ tpc' = "roots"
               /\ UNCHANGED output
    /\ UNCHANGED <<envelopes, current, root>>
    /\ UNCHANGED notThread

\* Lines 84-99: one iteration of the for loop up to the start of the path
\* compression.  An envelope without parent is skipped.
FindRoot ==
    /\ tpc = "roots"
    /\ loop_i <= Len(envelopes)
    /\ IF parent[loop_i] = 0
       THEN /\ loop_i' = loop_i + 1
            /\ UNCHANGED <<tpc, current, root>>
       ELSE /\ root' = WalkToRoot(parent, loop_i, 0)
            /\ current' = loop_i
            /\ tpc' = "compress"
            /\ UNCHANGED loop_i
    /\ UNCHANGED <<envelopes, parent, children, thread_root, output>>
    /\ UNCHANGED notThread

\* Lines 100-104: one iteration of the path-compression loop, or its exit.
CompressStep ==
    /\ tpc = "compress"
    /\ IF parent[current] # 0
       THEN /\ thread_root' = [thread_root EXCEPT ![current] = root]
            /\ current' = parent[current]
            /\ UNCHANGED <<tpc, loop_i, root>>
       ELSE /\ thread_root' = [thread_root EXCEPT ![loop_i] = root]
            /\ loop_i' = loop_i + 1
            /\ current' = 0
            /\ root' = 0
            /\ tpc' = "roots"
    /\ UNCHANGED <<envelopes, parent, children, output>>
    /\ UNCHANGED notThread

\* Lines 108-191: group, order the threads, flatten each and concatenate.
FlattenThreads ==
    /\ tpc = "roots"
    /\ loop_i > Len(envelopes)
    /\ \E keyOrder \in Perms({thread_root[k] : k \in 1..Len(envelopes)}) :
          LET roots == SortedRoots(envelopes, thread_root, keyOrder)
          IN output' = Flatten([k \in 1..Len(roots) |->
                                   ThreadResult(envelopes, children, roots[k])])
    /\ tpc' = "done"
    /\ UNCHANGED <<envelopes, parent, children, thread_root, loop_i, current, root>>
    /\ UNCHANGED notThread

NextThread == BuildParents \/ FindRoot \/ CompressStep \/ FlattenThreads

\* ---- inputs
\* Every message has its own message-id (its position); in_reply_to names
\* any message, itself included, or is absent; dates vary.
ForestInputs(maxEnv) ==
    UNION {[1..n -> {Envelope(0, 0, irt, <<>>, d) : irt \in 0..n, d \in 0..MaxDate}]
              : n \in 0..maxEnv}

WithIds(envs) == [k \in 1..Len(envs) |-> [envs[k] EXCEPT !.id = k]]
WithOwnMessageIds(envs) == [k \in 1..Len(envs) |-> [envs[k] EXCEPT !.message_id = k]]

InitThreadWith(inputs) ==
    /\ ListOff
    /\ ComposeOff
    /\ HeadersOff
    /\ DecodeOff
    /\ LaterOff
    /\ ScanOff
    /\ AddrOff
    /\ PrefixOff
    /\ envelopes \in inputs
    /\ tpc = "start"
    /\ parent = <<>>
    /\ children = <<>>
    /\ thread_root = <<>>
    /\ loop_i = 0
    /\ current = 0
    /\ root = 0
    /\ output = <<>>

\* Message ids (or none) from 1..MaxId, so that ids are shared or missing;
\* in_reply_to and up to MaxRefs references name any id, held or not.
IdInputs ==
    UNION {[1..n -> {Envelope(0, mid, irt, refs, 0) :
                        mid \in 0..MaxId, irt \in 0..MaxId,
                        refs \in SeqsUpTo(1..MaxId, MaxRefs)}]
              : n \in 0..MaxEnvIds}

Init == InitThreadWith({WithOwnMessageIds(WithIds(e)) : e \in ForestInputs(MaxEnv)})

Next == NextThread

Spec == Init /\ [][Next]_vars

InitIds == InitThreadWith({WithIds(e) : e \in IdInputs})

SpecIds == InitIds /\ [][NextThread]_vars

\* build_threaded_list is a sequential function: once called it keeps
\* executing, so every enabled step is eventually taken.
InitLive == InitThreadWith({WithOwnMessageIds(WithIds(e)) : e \in ForestInputs(MaxEnvLive)})

SpecLive == InitLive /\ [][NextThread]_vars /\ WF_vars(NextThread)

\* ---- one thread: lines 152-188 for a single root
\* The closure of step 8 applied to the root of a thread.
AnnotateThread ==
    /\ tpc = "thread"
    /\ output' = ThreadResult(envelopes, children, 1)
    /\ tpc' = "annotated"
    /\ UNCHANGED <<envelopes, parent, children, thread_root, loop_i, current, root>>
    /\ UNCHANGED notThread

NextTree == AnnotateThread

\* The reply trees on n messages in which every reply comes after its parent
\* in the input: message 1 is the root, message k > 1 replies to one of
\* 1..k-1.  Every shape of ordered tree is among them.
RECURSIVE TreeShapes(_)
TreeShapes(n) ==
    IF n = 1 THEN {<<0>>}
    ELSE {Append(t, p) : t \in TreeShapes(n - 1), p \in 1..(n - 1)}

TreeEnvelopes(shape) == [k \in 1..Len(shape) |-> Envelope(k, k, shape[k], <<>>, 0)]

\* The state steps 1-7 leave for one thread of at most MaxTree messages (well
\* within the 1000 hops of the root walk): every message is filed under the
\* root.
InitTree ==
    /\ ListOff
    /\ ComposeOff
    /\ HeadersOff
    /\ DecodeOff
    /\ LaterOff
    /\ ScanOff
    /\ AddrOff
    /\ PrefixOff
    /\ \E shape \in UNION {TreeShapes(n) : n \in 1..MaxTree} :
          /\ envelopes = TreeEnvelopes(shape)
          /\ parent = [k \in 1..Len(shape) |-> ParentOf(TreeEnvelopes(shape), k)]
          /\ children = [k \in 1..Len(shape) |->
                            ChildrenOf(TreeEnvelopes(shape), shape, k)]
          /\ thread_root = [k \in 1..Len(shape) |-> 1]
          /\ loop_i = Len(shape) + 1
    /\ tpc = "thread"
    /\ current = 0
    /\ root = 0
    /\ output = <<>>

SpecTree == InitTree /\ [][NextTree]_vars

\* ---- reply chains longer than the hop cap
\* Message k > 1 replies to message k - 1; dates vary.
ChainInputs ==
    UNION {[1..n -> {Envelope(0, 0, 0, <<>>, d) : d \in 0..MaxDate}] : n \in 0..MaxChain}

AsChain(envs) == [k \in 1..Len(envs) |-> [envs[k] EXCEPT !.in_reply_to = k - 1]]

InitChain == InitThreadWith({AsChain(WithOwnMessageIds(WithIds(e))) : e \in ChainInputs})

SpecChain == InitChain /\ [][NextThread]_vars

\* ---- compute_tree_prefix on its own
CallTreePrefix ==
    /\ tp_pc = "start"
    /\ tp_prefix' = ComputeTreePrefix(tp_depth, tp_is_last_sibling)
    /\ tp_pc' = "done"
    /\ UNCHANGED <<tp_depth, tp_is_last_sibling>>
    /\ UNCHANGED notPrefix

NextPrefix == CallTreePrefix

InitPrefix ==
    /\ ListOff
    /\ ComposeOff
    /\ HeadersOff
    /\ DecodeOff
    /\ LaterOff
    /\ ThreadOff
    /\ ScanOff
    /\ AddrOff
    /\ tp_pc = "start"
    /\ tp_depth \in 0..MaxPrefixDepth
    /\ tp_is_last_sibling \in BOOLEAN
    /\ tp_prefix = <<>>

SpecPrefix == InitPrefix /\ [][NextPrefix]_vars

\* ------------------------------------------------- the cache's serialization
\* serde's Serialize for Envelope: the fields marked #[serde(skip)]
\* (thread_depth, display_depth, is_last_in_thread, tree_prefix) are not
\* written.
SerializeEnvelope(env) ==
    [id |-> env.id, message_id |-> env.message_id, in_reply_to |-> env.in_reply_to,
     references |-> env.references, date |-> env.date]

\* A variant of Deserialize that leaves a depth of one in the envelope.
DeserializeEnvelopeDepthOne(bytes) ==
    [id |-> bytes.id, message_id |-> bytes.message_id, in_reply_to |-> bytes.in_reply_to,
     references |-> bytes.references, date |-> bytes.date,
     thread_depth |-> 1, display_depth |-> 1,
     is_last_in_thread |-> FALSE, tree_prefix |-> <<>>]

\* serde's Deserialize for Envelope: a skipped field gets Default::default().
DeserializeEnvelope(bytes) ==
    [id |-> bytes.id, message_id |-> bytes.message_id, in_reply_to |-> bytes.in_reply_to,
     references |-> bytes.references, date |-> bytes.date,
     thread_depth |-> 0, display_depth |-> 0,
     is_last_in_thread |-> FALSE, tree_prefix |-> <<>>]

\* save_cache: the envelope is persisted as a CachedEnvelope.
SaveEnvelope ==
    /\ ser_pc = "start"
    /\ ser_cached' = <<[envelope |-> SerializeEnvelope(ser_envelope)]>>
    /\ ser_pc' = "saved"
    /\ UNCHANGED <<ser_envelope, ser_returned>>
    /\ UNCHANGED notSerde

\* The next scan finds the entry valid (is_cache_valid): the envelope
\* load_cache deserialized is returned.
ScanCacheHit ==
    /\ ser_pc = "saved"
    /\ ser_returned' = <<DeserializeEnvelope(ser_cached[1].envelope)>>
    /\ ser_pc' = "hit"
    /\ UNCHANGED <<ser_envelope, ser_cached>>
    /\ UNCHANGED notSerde

\* The next scan finds the entry stale: parse_mail_file builds the envelope
\* from the file, whose headers are the ones the envelope was parsed from.
ScanReparse ==
    /\ ser_pc = "saved"
    /\ ser_returned' = <<Envelope(ser_envelope.id, ser_envelope.message_id,
                                  ser_envelope.in_reply_to, ser_envelope.references,
                                  ser_envelope.date)>>
    /\ ser_pc' = "parsed"
    /\ UNCHANGED <<ser_envelope, ser_cached>>
    /\ UNCHANGED notSerde

NextSerde == SaveEnvelope \/ ScanCacheHit \/ ScanReparse

\* The envelopes save_cache may be handed: any headers, with the annotations
\* build_threaded_list can have written.
AnnotatedEnvelopes ==
    {[Envelope(1, mid, irt, refs, date) EXCEPT
          !.thread_depth = d, !.display_depth = d, !.is_last_in_thread = last,
          !.tree_prefix = ComputeTreePrefix(d, sib)] :
        mid \in 0..1, irt \in 0..1, refs \in SeqsUpTo(1..1, 1), date \in 0..MaxDate,
        d \in 0..3, last \in BOOLEAN, sib \in BOOLEAN}

InitSerde ==
    /\ ListOff
    /\ ComposeOff
    /\ HeadersOff
    /\ DecodeOff
    /\ ThreadOff
    /\ ScanOff
    /\ AddrOff
    /\ PrefixOff
    /\ FlagsOff
    /\ DateOff
    /\ ser_pc = "start"
    /\ ser_envelope \in AnnotatedEnvelopes
    /\ ser_cached = <<>>
    /\ ser_returned = <<>>

SpecSerde == InitSerde /\ [][NextSerde]_vars

\* ------------------------------------------------------------ maildir flags
\* The marker ":2," that starts the flags of a maildir file name.
FlagsMarker == <<CharColon, 50, CharComma>>

\* str::rfind(pat): the offset of the last match, -1 for None.
RFind(s, pat) ==
    LET hits == {off \in 0..Len(s) : IsMatchAt(s, pat, off)}
    IN IF hits = {} THEN -1 ELSE CHOOSE off \in hits : \A o \in hits : o <= off

\* parse_flags_from_filename: the flags of the letters after the first
\* ":2,", in the letters' order; other letters are skipped.
FlagOf(c) ==
    IF c = CharS THEN <<"Seen">>
    ELSE IF c = CharR THEN <<"Replied">>
    ELSE IF c = CharF THEN <<"Flagged">>
    ELSE IF c = CharD THEN <<"Draft">>
    ELSE IF c = CharT THEN <<"Trashed">>
    ELSE IF c = CharP THEN <<"Passed">>
    ELSE <<>>

ParseFlagsFromFilename(filename) ==
    LET pos == Find(filename, FlagsMarker)
    IN IF pos = -1 THEN <<>>
       ELSE Flatten([k \in 1..(Len(filename) - pos - 3) |-> FlagOf(filename[pos + 3 + k])])

\* Vec::retain(|&x| x != c)
Retain(chars, c) == SelectSeq(chars, LAMBDA x : x # c)

\* A variant of the add that keeps only the added letter.
PushFlagAlone(chars, c) == <<c>>

\* if !flag_chars.contains(&c) { flag_chars.push(c) }
PushFlag(chars, c) ==
    IF \E k \in 1..Len(chars) : chars[k] = c THEN chars ELSE Append(chars, c)

\* A variant that leaves the letters as they are.
SortCharsNone(chars) == chars

\* flag_chars.sort(): ascending by code point.
SortChars(chars) ==
    StableSort(chars, [c \in {chars[k] : k \in 1..Len(chars)} |-> c], FALSE)

\* modify_maildir_flags lines 37-61: new_filename.
NewFilename(filename, add, remove) ==
    LET pos == RFind(filename, FlagsMarker)
        base == IF pos # -1 THEN SubSeq(filename, 1, pos + 3) ELSE filename \o FlagsMarker
        flags == IF pos # -1 THEN SubSeq(filename, pos + 4, Len(filename)) ELSE <<>>
        removed == IF remove # 0 THEN Retain(flags, remove) ELSE flags
        added == IF add # 0 THEN PushFlag(removed, add) ELSE removed
    IN base \o SortChars(added)

\* A variant that reports success whatever std::fs::rename returned.
RenameResultAlwaysOk(rename_ok, new_name) == [ok |-> TRUE, path |-> new_name]

\* Lines 64-66: `?` returns the rename's error, otherwise Ok(new_path).
RenameResult(rename_ok, new_name) ==
    IF rename_ok THEN [ok |-> TRUE, path |-> new_name] ELSE [ok |-> FALSE, path |-> <<>>]

\* modify_maildir_flags, up to the rename.
ModifyCall(add, remove) ==
    /\ fl_pc = "start"
    /\ fl_add' = add
    /\ fl_remove' = remove
    /\ fl_new_name' = NewFilename(fl_name, add, remove)
    /\ fl_pc' = "rename"
    /\ UNCHANGED <<fl_name, fl_disk, fl_renames, fl_result>>
    /\ UNCHANGED notFlags

\* modify_maildir_flags called with any letters.
ModifyMaildirFlags ==
    \E add \in {0, CharS, CharF}, remove \in {0, CharS, CharF} : ModifyCall(add, remove)

\* toggle_read: mark_as_unread when currently_read, else mark_as_read.
ToggleRead ==
    \E currently_read \in BOOLEAN :
        IF currently_read THEN ModifyCall(0, CharS) ELSE ModifyCall(CharS, 0)

\* std::fs::rename, which succeeds or fails, and the return.
Rename ==
    /\ fl_pc = "rename"
    /\ \E rename_ok \in BOOLEAN :
        /\ fl_disk' = IF rename_ok THEN fl_new_name ELSE fl_disk
        /\ fl_result' = RenameResult(rename_ok, fl_new_name)
        /\ fl_renames' = Append(fl_renames, rename_ok)
    /\ fl_pc' = "done"
    /\ UNCHANGED <<fl_name, fl_add, fl_remove, fl_new_name>>
    /\ UNCHANGED notFlags

NextFlags == ModifyMaildirFlags \/ ToggleRead \/ Rename

\* Valid maildir file names: a unique part without a colon, alone (as in
\* new/) or followed by ":2," and up to MaxFlags letters in any order, with
\* repeats, among them the letter a that is no flag.
FlagLetters == {CharD, CharF, CharS, CharT, 97}

FileNames ==
    LET uniques == {<<97>>, <<49, CharComma, 50>>}
    IN uniques \cup {u \o FlagsMarker \o f : u \in uniques, f \in SeqsUpTo(FlagLetters, MaxFlags)}

InitFlags ==
    /\ ListOff
    /\ ComposeOff
    /\ HeadersOff
    /\ DecodeOff
    /\ ThreadOff
    /\ ScanOff
    /\ AddrOff
    /\ PrefixOff
    /\ SerdeOff
    /\ DateOff
    /\ fl_pc = "start"
    /\ fl_name \in FileNames
    /\ fl_add = 0
    /\ fl_remove = 0
    /\ fl_new_name = <<>>
    /\ fl_disk = fl_name
    /\ fl_renames = <<>>
    /\ fl_result = [ok |-> FALSE, path |-> <<>>]

SpecFlags == InitFlags /\ [][NextFlags]_vars

\* ------------------------------------------------------------ parse_date
\* str::split_whitespace: the maximal runs of non-whitespace characters.
RECURSIVE SplitWhitespace(_)
SplitWhitespace(s) ==
    LET t == TrimStartIn(s, {c \in 9..32 : IsWhitespace(c)})
        ends == {k \in 1..Len(t) : IsWhitespace(t[k])}
        stop == IF ends = {} THEN Len(t) + 1 ELSE CHOOSE k \in ends : \A e \in ends : k <= e
    IN IF t = <<>> THEN <<>>
       ELSE <<SubSeq(t, 1, stop - 1)>> \o SplitWhitespace(SubSeq(t, stop, Len(t)))

\* The value of a string of decimal digits.
RECURSIVE DigitsToNat(_)
DigitsToNat(ds) ==
    IF ds = <<>> THEN 0 ELSE 10 * DigitsToNat(SubSeq(ds, 1, Len(ds) - 1)) + (ds[Len(ds)] - 48)

\* u32::MAX, 4294967295, as decimal digits.
U32MaxDigits == <<52, 50, 57, 52, 57, 54, 55, 50, 57, 53>>

\* The first k digits of a and b are equal and a's next digit is greater.
DigitsGreater(a, b) ==
    \E k \in 1..Len(a) : a[k] > b[k] /\ \A j \in 1..(k - 1) : a[j] = b[j]

\* The value of a digit string as a u32, -1 when it overflows.  A value of
\* ten digits is given as 2147483647, the greatest integer of the model:
\* the callers compare the value with 31 and 2100 only.
U32Value(ds) ==
    LET sig == TrimStartIn(ds, {48})
    IN IF Len(sig) > 10 \/ (Len(sig) = 10 /\ DigitsGreater(sig, U32MaxDigits)) THEN -1
       ELSE IF Len(sig) = 10 THEN 2147483647
       ELSE DigitsToNat(sig)

\* str::parse::<u32>: an optional '+', then one or more decimal digits, and
\* a value that fits 32 bits; -1 for Err.
ParseU32(p) ==
    LET ds == IF p # <<>> /\ Head(p) = CharPlus THEN Tail(p) ELSE p
    IN IF ds = <<>> \/ \E k \in 1..Len(ds) : ds[k] < 48 \/ ds[k] > 57 THEN -1
       ELSE U32Value(ds)

\* str::to_lowercase on ASCII
ToLower(s) == [k \in 1..Len(s) |-> IF s[k] >= 65 /\ s[k] <= 90 THEN s[k] + 32 ELSE s[k]]

\* jan .. dec
MonthNames ==
    <<<<106, 97, 110>>, <<102, 101, 98>>, <<109, 97, 114>>, <<97, 112, 114>>,
      <<109, 97, 121>>, <<106, 117, 110>>, <<106, 117, 108>>, <<97, 117, 103>>,
      <<115, 101, 112>>, <<111, 99, 116>>, <<110, 111, 118>>, <<100, 101, 99>>>>

\* format!("{:02}", n) for n below 100
TwoDigits(n) == <<48 + (n \div 10), 48 + (n % 10)>>

\* The month_to_num closure: "01" .. "12", "00" for another word.
MonthToNum(m) ==
    LET hits == {k \in 1..12 : MonthNames[k] = ToLower(m)}
    IN IF hits = {} THEN TwoDigits(0) ELSE TwoDigits(CHOOSE k \in hits : TRUE)

\* Iterator::find over parts: the index of the first part that passes
\* (passes[k] tells whether part k does), 0 for None.
FirstPart(passes) ==
    LET hits == {k \in 1..Len(passes) : passes[k]}
    IN IF hits = {} THEN 0 ELSE CHOOSE k \in hits : \A h \in hits : k <= h

IsDay(p) == ParseU32(p) >= 1 /\ ParseU32(p) <= 31

IsMonth(p) == \E k \in 1..12 : MonthNames[k] = ToLower(p)

IsYear(p) == ParseU32(p) >= 1990 /\ ParseU32(p) <= 2100

IsTime(p) == (\E k \in 1..Len(p) : p[k] = CharColon) /\ Len(p) >= 4

\* chars().take(n)
Take(s, n) == SubSeq(s, 1, Min(n, Len(s)))

\* parse_date lines 456-485: the parts and the day, month, year and time
\* found among them.
DateParts(s) ==
    LET parts == SplitWhitespace(Replace(s, <<CharComma>>, <<CharSpace>>))
    IN [parts |-> parts,
        day |-> FirstPart([k \in 1..Len(parts) |-> IsDay(parts[k])]),
        month |-> FirstPart([k \in 1..Len(parts) |-> IsMonth(parts[k])]),
        year |-> FirstPart([k \in 1..Len(parts) |-> IsYear(parts[k])]),
        time |-> FirstPart([k \in 1..Len(parts) |-> IsTime(parts[k])])]

\* parse_date
ParseDate(s) ==
    LET f == DateParts(s)
    IN IF f.day # 0 /\ f.month # 0 /\ f.year # 0
       THEN f.parts[f.year] \o <<45>> \o MonthToNum(f.parts[f.month]) \o <<45>>
                \o TwoDigits(ParseU32(f.parts[f.day])) \o <<CharSpace>>
                \o (IF f.time # 0 THEN Take(f.parts[f.time], 5) ELSE <<48, 48, CharColon, 48, 48>>)
       ELSE <<48, 48, 48, 48, 45, 48, 48, 45, 48, 48, CharSpace>> \o Take(s, 20)

\* One call of parse_date (save_header, "date"), first on the first header
\* and then on the second.
ParseDateCall ==
    /\ dt_pc \in {"first", "second"}
    /\ dt_out' = Append(dt_out, ParseDate(dt_raw[Len(dt_out) + 1]))
    /\ dt_pc' = IF dt_pc = "first" THEN "second" ELSE "done"
    /\ UNCHANGED <<dt_dates, dt_raw>>
    /\ UNCHANGED notDate

NextDate == ParseDateCall

\* The dates a header is written from: day, month (0 when the writer left
\* it out), year, a time of day and a zone offset in minutes; `weekday`
\* when the header starts with the day of the week, `plus` when the year is
\* written with a sign.
HeaderDates ==
    {h \in [weekday : BOOLEAN, day : {0, 5, 15}, month : {0, 1, 12}, year : {0, 2025, 2026},
             plus : BOOLEAN, time : {<<10, 30, 45>>, <<12, 0, 0>>}, zone : {-480, 0}] :
        h.plus => h.year = 2026}

\* The decimal digits of n.
RECURSIVE DecimalDigits(_)
DecimalDigits(n) ==
    IF n < 10 THEN <<48 + n>> ELSE Append(DecimalDigits(n \div 10), 48 + (n % 10))

\* The header value written for a date, as in "Mon, 15 Jan 2026 10:30:45
\* -0800": the month capitalised for January and in lower case for december.
RenderDate(h) ==
    (IF h.weekday THEN <<77, 111, 110, CharComma, CharSpace>> ELSE <<>>)
    \o (IF h.day # 0 THEN DecimalDigits(h.day) \o <<CharSpace>> ELSE <<>>)
    \o (IF h.month = 0 THEN <<>>
        ELSE IF h.month = 1 THEN <<74, 97, 110, CharSpace>>
        ELSE MonthNames[h.month] \o <<CharSpace>>)
    \o (IF h.year # 0
        THEN (IF h.plus THEN <<CharPlus>> ELSE <<>>) \o DecimalDigits(h.year) \o <<CharSpace>>
        ELSE <<>>)
    \o TwoDigits(h.time[1]) \o <<CharColon>> \o TwoDigits(h.time[2]) \o <<CharColon>>
    \o TwoDigits(h.time[3]) \o <<CharSpace>>
    \o (IF h.zone < 0 THEN <<45>> ELSE <<CharPlus>>)
    \o TwoDigits((IF h.zone < 0 THEN 0 - h.zone ELSE h.zone) \div 60)
    \o TwoDigits((IF h.zone < 0 THEN 0 - h.zone ELSE h.zone) % 60)

InitDate ==
    /\ ListOff
    /\ ComposeOff
    /\ HeadersOff
    /\ DecodeOff
    /\ ThreadOff
    /\ ScanOff
    /\ AddrOff
    /\ PrefixOff
    /\ SerdeOff
    /\ FlagsOff
    /\ dt_pc = "first"
    /\ dt_dates \in {<<a, b>> : a \in HeaderDates, b \in HeaderDates}
    /\ dt_raw = <<RenderDate(dt_dates[1]), RenderDate(dt_dates[2])>>
    /\ dt_out = <<>>

SpecDate == InitDate /\ [][NextDate]_vars

\* ------------------------------------------------- decode_header_value
\* save_header, "subject": the value is decoded.
DecodeSubject ==
    /\ dh_pc = "start"
    /\ dh_result' = DecodeHeaderValue(dh_value)
    /\ dh_pc' = "done"
    /\ UNCHANGED dh_value
    /\ UNCHANGED notDecode

NextDecode == DecodeSubject

\* Header values put together from up to MaxPieces pieces: the markers
\* "=?" and "?=", the encoding parts "?Q?" and "?B?", and "?", "=", "_",
\* "a" and the base64 text "YQ".
ValuePieces ==
    {<<CharEq, CharQm>>, <<CharQm, CharEq>>, <<CharQm, 81, CharQm>>, <<CharQm, 66, CharQm>>,
     <<CharQm>>, <<CharEq>>, <<CharUnderscore>>, <<97>>, <<89, 81>>}

HeaderValues == {Flatten(ps) : ps \in SeqsUpTo(ValuePieces, MaxPieces)}

InitDecode ==
    /\ ListOff
    /\ ComposeOff
    /\ HeadersOff
    /\ ThreadOff
    /\ ScanOff
    /\ AddrOff
    /\ PrefixOff
    /\ SerdeOff
    /\ FlagsOff
    /\ DateOff
    /\ dh_pc = "start"
    /\ dh_value \in HeaderValues
    /\ dh_result = [panic |-> FALSE, str |-> <<>>]

SpecDecode == InitDecode /\ [][NextDecode]_vars

\* ------------------------------------------------- the header loop
\* extract_message_id
ExtractMessageId(v) ==
    LET t == Trim(v)
    IN IF t # <<>> /\ Head(t) = CharLt /\ t[Len(t)] = CharGt
       THEN Slice(t, 1, Len(t) - 1).str
       ELSE t

\* The header fields before the first header is saved (Option: <<>> for
\* None, <<v>> for Some(v)); `panic` when a decoder panicked.
NoFields ==
    [message_id |-> <<>>, in_reply_to |-> <<>>, references |-> <<>>, from |-> <<>>,
     to |-> <<>>, subject |-> <<>>, date |-> <<>>, content_type |-> <<>>, panic |-> FALSE]

\* The non-empty message ids of a References value.
RECURSIVE ReferenceIds(_)
ReferenceIds(parts) ==
    IF parts = <<>> THEN <<>>
    ELSE (IF ExtractMessageId(Head(parts)) # <<>> THEN <<ExtractMessageId(Head(parts))>> ELSE <<>>)
             \o ReferenceIds(Tail(parts))

\* save_header
SaveHeader(fields, h, value) ==
    IF h = <<109, 101, 115, 115, 97, 103, 101, 45, 105, 100>>
    THEN [fields EXCEPT !.message_id = <<ExtractMessageId(value)>>]
    ELSE IF h = <<105, 110, 45, 114, 101, 112, 108, 121, 45, 116, 111>>
    THEN [fields EXCEPT !.in_reply_to = <<ExtractMessageId(value)>>]
    ELSE IF h = <<114, 101, 102, 101, 114, 101, 110, 99, 101, 115>>
    THEN [fields EXCEPT !.references = ReferenceIds(SplitWhitespace(value))]
    ELSE IF h = <<102, 114, 111, 109>> THEN [fields EXCEPT !.from = <<value>>]
    ELSE IF h = <<116, 111>> THEN [fields EXCEPT !.to = <<value>>]
    ELSE IF h = <<115, 117, 98, 106, 101, 99, 116>>
    THEN IF DecodeHeaderValue(value).panic THEN [fields EXCEPT !.panic = TRUE]
         ELSE [fields EXCEPT !.subject = <<DecodeHeaderValue(value).str>>]
    ELSE IF h = <<100, 97, 116, 101>> THEN [fields EXCEPT !.date = <<ParseDate(value)>>]
    ELSE IF h = <<99, 111, 110, 116, 101, 110, 116, 45, 116, 121, 112, 101>>
    THEN [fields EXCEPT !.content_type = <<ToLower(value)>>]
    ELSE fields

\* if let Some(header) = current_header.take() { save_header(..) }
SaveCurrent(fields, h, value) ==
    IF h # <<>> THEN SaveHeader(fields, h[1], value) ELSE fields

\* line.starts_with(' ') || line.starts_with('\t')
IsContinuation(line) == line # <<>> /\ Head(line) \in {CharSpace, CharTab}

\* Lines 175-193: the reader yields an empty line: the last header is saved
\* and the loop is left.
ReadEmptyLine ==
    /\ hl_pc = "read"
    /\ hl_next <= Len(hl_lines)
    /\ hl_lines[hl_next] = <<>>
    /\ hl_env' = SaveCurrent(hl_env, hl_current_header, hl_current_value)
    /\ hl_current_header' = <<>>
    /\ hl_next' = hl_next + 1
    /\ hl_pc' = "done"
    /\ UNCHANGED <<hl_lines, hl_current_value>>
    /\ UNCHANGED notHeaders

\* Lines 196-199: a continuation line is appended to current_value.
ReadContinuation ==
    /\ hl_pc = "read"
    /\ hl_next <= Len(hl_lines)
    /\ IsContinuation(hl_lines[hl_next])
    /\ hl_current_value' = hl_current_value \o <<CharSpace>> \o Trim(hl_lines[hl_next])
    /\ hl_next' = hl_next + 1
    /\ UNCHANGED <<hl_pc, hl_lines, hl_current_header, hl_env>>
    /\ UNCHANGED notHeaders

\* Lines 200-222: another line: the previous header is saved, and the line
\* starts a header if it has a colon.
ReadHeaderLine ==
    /\ hl_pc = "read"
    /\ hl_next <= Len(hl_lines)
    /\ hl_lines[hl_next] # <<>>
    /\ ~IsContinuation(hl_lines[hl_next])
    /\ LET line == hl_lines[hl_next]
           colon_pos == Find(line, <<CharColon>>)
       IN /\ hl_env' = SaveCurrent(hl_env, hl_current_header, hl_current_value)
          /\ hl_current_header' =
                IF colon_pos # -1 THEN <<ToLower(SubSeq(line, 1, colon_pos))>> ELSE <<>>
          /\ hl_current_value' =
                IF colon_pos # -1 THEN Trim(SubSeq(line, colon_pos + 2, Len(line)))
                ELSE hl_current_value
    /\ hl_next' = hl_next + 1
    /\ UNCHANGED <<hl_pc, hl_lines>>
    /\ UNCHANGED notHeaders

\* The reader is exhausted: the for loop ends and line 227 follows.
EndOfFile ==
    /\ hl_pc = "read"
    /\ hl_next > Len(hl_lines)
    /\ hl_pc' = "done"
    /\ UNCHANGED <<hl_lines, hl_next, hl_current_header, hl_current_value, hl_env>>
    /\ UNCHANGED notHeaders

NextHeaders == ReadEmptyLine \/ ReadContinuation \/ ReadHeaderLine \/ EndOfFile

\* The lines of the files: "Subject: a", "SUBJECT:b", "To: a", "X: b",
\* " c", "\tb ", the empty line and "j".
FileLines ==
    {<<83, 117, 98, 106, 101, 99, 116, CharColon, CharSpace, 97>>,
     <<83, 85, 66, 74, 69, 67, 84, CharColon, 98>>,
     <<84, 111, CharColon, CharSpace, 97>>,
     <<88, CharColon, CharSpace, 98>>,
     <<CharSpace, 99>>,
     <<CharTab, 98, CharSpace>>,
     <<>>,
     <<106>>}

InitHeaders ==
    /\ ListOff
    /\ ComposeOff
    /\ ThreadOff
    /\ ScanOff
    /\ AddrOff
    /\ PrefixOff
    /\ SerdeOff
    /\ FlagsOff
    /\ DateOff
    /\ DecodeOff
    /\ hl_pc = "read"
    /\ hl_lines \in SeqsUpTo(FileLines, MaxLines)
    /\ hl_next = 1
    /\ hl_current_header = <<>>
    /\ hl_current_value = <<>>
    /\ hl_env = NoFields

SpecHeaders == InitHeaders /\ [][NextHeaders]_vars

\* ------------------------------------------------------ the compose view
\* ComposeState::default() as far as the attachment pane goes.
StartCompose == [attachments |-> <<>>, attachment_selection |-> 0]

AddAttachment(atts, path) ==
    IF \E i \in 1..Len(atts) : atts[i] = path THEN atts ELSE Append(atts, path)

\* `for file in files { app.add_attachment(file); }`
RECURSIVE AddFiles(_, _)
AddFiles(atts, chosen) ==
    IF chosen = <<>> THEN atts
    ELSE AddFiles(AddAttachment(atts, Head(chosen)), Tail(chosen))

\* Vec::remove(index), index 0-based; it panics when index >= len.
VecRemove(v, index) ==
    [i \in 1..(Len(v) - 1) |-> IF i <= index THEN v[i] ELSE v[i + 1]]

\* The decrement of remove_selected_attachment left out.
KeepSelection(selection, len) == selection

\* app.rs:544-549: the selection after the removal.
SelectionAfterRemove(selection, len) ==
    IF selection >= len /\ selection > 0 THEN selection - 1 ELSE selection

RemoveSelectedAttachment(c) ==
    IF c.attachments = <<>> THEN [compose |-> c, panic |-> FALSE]
    ELSE IF c.attachment_selection >= Len(c.attachments)
    THEN [compose |-> c, panic |-> TRUE]
    ELSE LET rest == VecRemove(c.attachments, c.attachment_selection)
         IN [compose |-> [attachments |-> rest,
                          attachment_selection |->
                              SelectionAfterRemove(c.attachment_selection, Len(rest))],
             panic |-> FALSE]

NextAttachment(c) ==
    IF c.attachments = <<>> THEN c
    ELSE [c EXCEPT !.attachment_selection = (@ + 1) % Len(c.attachments)]

PrevAttachment(c) ==
    IF c.attachments = <<>> THEN c
    ELSE [c EXCEPT !.attachment_selection =
              IF @ = 0 THEN Len(c.attachments) - 1 ELSE @ - 1]

Compose == [attachments |-> attachments, attachment_selection |-> attachment_selection]

AttachmentPaths == 1..MaxAttach

\* What pick_files returns: an error, None (no file chosen) or Some(files),
\* where the chooser may list a path twice.
PickerOutcomes ==
    {[error |-> TRUE, files |-> <<>>]}
    \cup {[error |-> FALSE, files |-> f] : f \in SeqsUpTo(AttachmentPaths, MaxPicked)}

\* What edit_message returns: Some(draft), None or an error.
EditorOutcomes == {"draft", "none", "error"}

\* What send_message returns: Ok(true), Ok(false) or an error.
SendOutcomes == {"sent", "failed", "error"}

Pressed(key) == keys_pressed' = Append(keys_pressed, key)

SetCompose(c) ==
    /\ attachments' = c.attachments
    /\ attachment_selection' = c.attachment_selection

\* Every arm of the compose view but 's' starts like this.
SendCancelled ==
    /\ confirm_send' = FALSE
    /\ UNCHANGED <<view, attachments, attachment_selection, sent_at>>

\* List view, 'c' (and 'r', which differs in the draft's text only).
ListKeyC ==
    /\ view = "List"
    /\ Len(keys_pressed) < MaxKeys
    /\ Pressed("c")
    /\ SetCompose(StartCompose)
    /\ \E draft \in EditorOutcomes :
          view' = CASE draft = "draft" -> "Compose"
                    [] draft = "none" -> "List"
                    [] OTHER -> "Exit"
    /\ UNCHANGED <<confirm_send, sent_at>>
    /\ UNCHANGED notCompose

\* List view, 'C'.
ListKeyShiftC ==
    /\ view = "List"
    /\ Len(keys_pressed) < MaxKeys
    /\ Pressed("C")
    /\ \E picked \in PickerOutcomes :
          IF picked.error
          THEN /\ SetCompose(StartCompose)
               /\ view' = "Exit"
          ELSE /\ SetCompose([StartCompose EXCEPT
                                 !.attachments = AddFiles(@, picked.files)])
               /\ \E draft \in EditorOutcomes :
                     view' = CASE draft = "draft" -> "Compose"
                               [] draft = "none" -> "List"
                               [] OTHER -> "Exit"
    /\ UNCHANGED <<confirm_send, sent_at>>
    /\ UNCHANGED notCompose

\* Compose view, 'q' and Esc.
ComposeKeyQuit ==
    /\ view = "Compose"
    /\ Len(keys_pressed) < MaxKeys
    /\ \E key \in {"q", "Esc"} : Pressed(key)
    /\ IF confirm_send THEN SendCancelled
       ELSE /\ view' = "List"
            /\ UNCHANGED <<confirm_send, attachments, attachment_selection, sent_at>>
    /\ UNCHANGED notCompose

ComposeKeyE ==
    /\ view = "Compose"
    /\ Len(keys_pressed) < MaxKeys
    /\ Pressed("e")
    /\ IF confirm_send THEN SendCancelled
       ELSE /\ \E draft \in EditorOutcomes :
                  view' = IF draft = "error" THEN "Exit" ELSE view
            /\ UNCHANGED <<confirm_send, attachments, attachment_selection, sent_at>>
    /\ UNCHANGED notCompose

ComposeKeyA ==
    /\ view = "Compose"
    /\ Len(keys_pressed) < MaxKeys
    /\ Pressed("a")
    /\ IF confirm_send THEN SendCancelled
       ELSE /\ \E picked \in PickerOutcomes :
                  /\ view' = IF picked.error THEN "Exit" ELSE view
                  /\ attachments' = AddFiles(attachments, picked.files)
            /\ UNCHANGED <<confirm_send, attachment_selection, sent_at>>
    /\ UNCHANGED notCompose

ComposeKeyD ==
    /\ view = "Compose"
    /\ Len(keys_pressed) < MaxKeys
    /\ Pressed("d")
    /\ IF confirm_send THEN SendCancelled
       ELSE LET r == RemoveSelectedAttachment(Compose)
            IN /\ SetCompose(r.compose)
               /\ view' = IF r.panic THEN "Panic" ELSE view
               /\ UNCHANGED <<confirm_send, sent_at>>
    /\ UNCHANGED notCompose

\* Compose view, 'j' and Down.
ComposeKeyJ ==
    /\ view = "Compose"
    /\ Len(keys_pressed) < MaxKeys
    /\ Pressed("j")
    /\ IF confirm_send THEN SendCancelled
       ELSE /\ SetCompose(NextAttachment(Compose))
            /\ UNCHANGED <<view, confirm_send, sent_at>>
    /\ UNCHANGED notCompose

\* Compose view, 'k' and Up.
ComposeKeyK ==
    /\ view = "Compose"
    /\ Len(keys_pressed) < MaxKeys
    /\ Pressed("k")
    /\ IF confirm_send THEN SendCancelled
       ELSE /\ SetCompose(PrevAttachment(Compose))
            /\ UNCHANGED <<view, confirm_send, sent_at>>
    /\ UNCHANGED notCompose

ComposeKeyS ==
    /\ view = "Compose"
    /\ Len(keys_pressed) < MaxKeys
    /\ Pressed("s")
    /\ IF confirm_send
       THEN /\ confirm_send' = FALSE
            /\ \E outcome \in SendOutcomes :
                  /\ view' = CASE outcome = "sent" -> "List"
                               [] outcome = "failed" -> view
                               [] OTHER -> "Exit"
                  /\ sent_at' = IF outcome = "sent"
                                THEN sent_at \cup {Len(keys_pressed) + 1}
                                ELSE sent_at
       ELSE /\ confirm_send' = TRUE
            /\ UNCHANGED <<view, sent_at>>
    /\ UNCHANGED <<attachments, attachment_selection>>
    /\ UNCHANGED notCompose

\* Compose view, the `_ => {}` arm: any key with no arm of its own.
ComposeKeyOther ==
    /\ view = "Compose"
    /\ Len(keys_pressed) < MaxKeys
    /\ Pressed("other")
    /\ UNCHANGED <<view, confirm_send, attachments, attachment_selection, sent_at>>
    /\ UNCHANGED notCompose

NextCompose ==
    \/ ListKeyC
    \/ ListKeyShiftC
    \/ ComposeKeyQuit
    \/ ComposeKeyE
    \/ ComposeKeyA
    \/ ComposeKeyD
    \/ ComposeKeyJ
    \/ ComposeKeyK
    \/ ComposeKeyS
    \/ ComposeKeyOther

\* App::new: the list view, nothing being confirmed, an empty draft.
InitCompose ==
    /\ ListOff
    /\ ThreadOff
    /\ ScanOff
    /\ AddrOff
    /\ PrefixOff
    /\ SerdeOff
    /\ FlagsOff
    /\ DateOff
    /\ DecodeOff
    /\ HeadersOff
    /\ view = "List"
    /\ confirm_send = FALSE
    /\ attachments = <<>>
    /\ attachment_selection = 0
    /\ keys_pressed = <<>>
    /\ sent_at = {}

SpecCompose == InitCompose /\ [][NextCompose]_vars

\* ------------------------------------------------------ the message list
\* The App fields the list operations read and write, as one record.
App ==
    [envelopes |-> app_envelopes,
     original_envelopes |-> original_envelopes,
     filtered_indices |-> filtered_indices,
     selected |-> selected,
     offset |-> offset,
     search_query |-> search_query,
     is_search_results |-> is_search_results,
     show_unread_only |-> show_unread_only,
     view |-> list_view,
     focused_pane |-> focused_pane,
     pending_read_mark |-> pending_read_mark]

SetApp(a) ==
    /\ app_envelopes' = a.envelopes
    /\ original_envelopes' = a.original_envelopes
    /\ filtered_indices' = a.filtered_indices
    /\ selected' = a.selected
    /\ offset' = a.offset
    /\ search_query' = a.search_query
    /\ is_search_results' = a.is_search_results
    /\ show_unread_only' = a.show_unread_only
    /\ list_view' = a.view
    /\ focused_pane' = a.focused_pane
    /\ pending_read_mark' = a.pending_read_mark

\* e.flags.contains(&"Seen".to_string())
IsSeen(e) == \E k \in 1..Len(e.flags) : e.flags[k] = "Seen"

\* Envelope::from_display: the name, else the address, else "(unknown)".
FromDisplay(e) ==
    IF e.from = <<>> THEN <<40, 117, 110, 107, 110, 111, 119, 110, 41>>
    ELSE IF e.from[1].name # <<>> THEN e.from[1].name[1] ELSE e.from[1].addr

\* fuzzy_match: the pattern's characters occur in the text in order.
RECURSIVE FuzzyMatch(_, _)
FuzzyMatch(text, pattern) ==
    IF pattern = <<>> THEN TRUE
    ELSE IF text = <<>> THEN FALSE
    ELSE IF Head(text) = Head(pattern) THEN FuzzyMatch(Tail(text), Tail(pattern))
    ELSE FuzzyMatch(Tail(text), pattern)

\* str::contains
Contains(s, pat) == Find(s, pat) # -1

\* (0..len).filter(keep).collect(), keep given as the set of indices kept.
IndicesIn(len, kept) == SelectSeq([k \in 1..len |-> k - 1], LAMBDA i : i \in kept)

\* ListState::select: selecting None also resets the offset.  (apply_filter
\* calls it only when the selection changes, which gives the same state
\* but for a None that stays None, where the list is empty both times.)
Select(a, sel) ==
    IF sel = -1 /\ a.selected # -1 THEN [a EXCEPT !.selected = -1, !.offset = 0]
    ELSE [a EXCEPT !.selected = sel]

\* The selection left as it is, whatever the new list.
KeepListSelection(sel, len) == sel

\* apply_filter lines 315-325: the selection is kept if it still is an index
\* of the new list, else reset to the first row or to None.
SelectionAfterFilter(sel, len) ==
    IF sel # -1
    THEN IF sel >= len THEN (IF len # 0 THEN 0 ELSE -1) ELSE sel
    ELSE IF len # 0 THEN 0 ELSE -1

ApplyFilter(a) ==
    LET query == ToLower(a.search_query)
        keeps(e) ==
            /\ ~(a.show_unread_only /\ IsSeen(e))
            /\ \/ query = <<>>
               \/ FuzzyMatch(ToLower(IF e.subject = <<>> THEN <<>> ELSE e.subject[1]), query)
               \/ FuzzyMatch(ToLower(FromDisplay(e)), query)
        indices == IndicesIn(Len(a.envelopes),
                             {i \in 0..(Len(a.envelopes) - 1) : keeps(a.envelopes[i + 1])})
    IN Select([a EXCEPT !.filtered_indices = indices],
              SelectionAfterFilter(a.selected, Len(indices)))

Refresh(a, new_envelopes) ==
    ApplyFilter([a EXCEPT !.envelopes = new_envelopes,
                          !.original_envelopes = new_envelopes,
                          !.is_search_results = FALSE,
                          !.search_query = <<>>])

\* selected_envelope: <<>> for None.
SelectedEnvelope(a) ==
    IF /\ a.selected # -1
       /\ a.selected < Len(a.filtered_indices)
       /\ a.filtered_indices[a.selected + 1] < Len(a.envelopes)
    THEN <<a.envelopes[a.filtered_indices[a.selected + 1] + 1]>>
    ELSE <<>>

\* App::next
ListNext(a) ==
    IF a.filtered_indices = <<>> THEN a
    ELSE LET max == Len(a.filtered_indices) - 1
         IN [a EXCEPT !.selected = IF @ # -1 THEN Min(@ + 1, max) ELSE 0]

\* App::previous
ListPrevious(a) ==
    IF a.filtered_indices = <<>> THEN a
    ELSE [a EXCEPT !.selected = IF @ # -1 THEN (IF @ = 0 THEN 0 ELSE @ - 1) ELSE 0]

\* list_visible_height: list_area.height.saturating_sub(2)
ListVisibleHeight(height) == IF height >= 2 THEN height - 2 ELSE 0

\* x - 1 on a usize: below zero the debug build panics and the release build
\* wraps around to usize::MAX.
DecrementUsize(x, debug) ==
    IF x >= 1 THEN [value |-> x - 1, panic |-> FALSE]
    ELSE IF debug THEN [value |-> 0, panic |-> TRUE]
    ELSE [value |-> UsizeMax, panic |-> FALSE]

\* scroll_list_down; changed is the value returned.
ScrollListDown(a, lines, visible_height, debug) ==
    IF a.filtered_indices = <<>> THEN [app |-> a, changed |-> FALSE, panic |-> FALSE]
    ELSE LET max_offset == Len(a.filtered_indices) - 1
             new_offset == Min(a.offset + lines, max_offset)
             moved == [a EXCEPT !.offset = new_offset]
         IN IF a.selected = -1 THEN [app |-> moved, changed |-> FALSE, panic |-> FALSE]
            ELSE IF a.selected < new_offset
            THEN [app |-> [moved EXCEPT !.selected = new_offset],
                  changed |-> TRUE, panic |-> FALSE]
            ELSE IF a.selected >= new_offset + visible_height
            THEN LET last == DecrementUsize(new_offset + visible_height, debug)
                 IN IF last.panic THEN [app |-> moved, changed |-> FALSE, panic |-> TRUE]
                    ELSE [app |-> [moved EXCEPT !.selected = last.value],
                          changed |-> last.value # a.selected, panic |-> FALSE]
            ELSE [app |-> moved, changed |-> FALSE, panic |-> FALSE]

\* scroll_list_up; changed is the value returned.
ScrollListUp(a, lines, visible_height, debug) ==
    IF a.filtered_indices = <<>> THEN [app |-> a, changed |-> FALSE, panic |-> FALSE]
    ELSE LET new_offset == IF a.offset >= lines THEN a.offset - lines ELSE 0
             moved == [a EXCEPT !.offset = new_offset]
         IN IF a.selected = -1 THEN [app |-> moved, changed |-> FALSE, panic |-> FALSE]
            ELSE LET max_visible == DecrementUsize(new_offset + visible_height, debug)
                 IN IF max_visible.panic
                    THEN [app |-> moved, changed |-> FALSE, panic |-> TRUE]
                    ELSE IF a.selected > max_visible.value
                    THEN LET to == Min(max_visible.value, Len(a.filtered_indices) - 1)
                         IN [app |-> [moved EXCEPT !.selected = to],
                             changed |-> to # a.selected, panic |-> FALSE]
                    ELSE IF a.selected < new_offset
                    THEN [app |-> [moved EXCEPT !.selected = new_offset],
                          changed |-> TRUE, panic |-> FALSE]
                    ELSE [app |-> moved, changed |-> FALSE, panic |-> FALSE]

StartSearch(a) == [a EXCEPT !.search_query = <<>>, !.view = "Search"]

ToggleUnreadFilter(a) == ApplyFilter([a EXCEPT !.show_unread_only = ~@])

CancelSearch(a) ==
    LET restored == IF a.is_search_results
                    THEN [a EXCEPT !.envelopes = a.original_envelopes,
                                   !.is_search_results = FALSE]
                    ELSE a
    IN [ApplyFilter([restored EXCEPT !.search_query = <<>>]) EXCEPT !.view = "List"]

SetSearchResults(a, results) ==
    ApplyFilter([a EXCEPT !.envelopes = results, !.is_search_results = TRUE])

\* run_search (main.rs)
RunSearch(a) ==
    LET query_lower == ToLower(a.search_query)
        hit(e) ==
            \/ e.subject # <<>> /\ Contains(ToLower(e.subject[1]), query_lower)
            \/ /\ e.from # <<>>
               /\ \/ Contains(ToLower(e.from[1].addr), query_lower)
                  \/ /\ e.from[1].name # <<>>
                     /\ Contains(ToLower(e.from[1].name[1]), query_lower)
        indices ==
            IF a.search_query = <<>>
            THEN IndicesIn(Len(a.envelopes), 0..(Len(a.envelopes) - 1))
            ELSE IndicesIn(Len(a.envelopes),
                           {i \in 0..(Len(a.envelopes) - 1) : hit(a.envelopes[i + 1])})
    IN Select([a EXCEPT !.filtered_indices = indices,
                        !.is_search_results = a.search_query # <<>>],
              IF indices # <<>> THEN 0 ELSE -1)

\* The envelope the selection points at, with its flags changed.
WithSelectedFlags(a, flags) ==
    [a EXCEPT !.envelopes[a.filtered_indices[a.selected + 1] + 1].flags = flags]

\* mark_current_read
MarkCurrentRead(a) ==
    IF SelectedEnvelope(a) = <<>> \/ IsSeen(SelectedEnvelope(a)[1]) THEN a
    ELSE WithSelectedFlags(a, Append(SelectedEnvelope(a)[1].flags, "Seen"))

\* toggle_current_read: result is <<>> for None, <<[id, is_now_read]>> else.
ToggleCurrentRead(a) ==
    IF SelectedEnvelope(a) = <<>> THEN [app |-> a, result |-> <<>>]
    ELSE LET env == SelectedEnvelope(a)[1]
         IN IF IsSeen(env)
            THEN [app |-> WithSelectedFlags(a, SelectSeq(env.flags, LAMBDA f : f # "Seen")),
                  result |-> <<[id |-> env.id, is_now_read |-> FALSE]>>]
            ELSE [app |-> WithSelectedFlags(a, Append(env.flags, "Seen")),
                  result |-> <<[id |-> env.id, is_now_read |-> TRUE]>>]

\* handle_click on a row of the list pane: visual_row is the row under the
\* pointer, counted from the first row inside the border.
HandleClickList(a, visual_row) ==
    LET actual_row == visual_row + a.offset
        focused == [a EXCEPT !.focused_pane = "List"]
    IN IF actual_row < Len(a.filtered_indices)
       THEN [app |-> [focused EXCEPT !.selected = actual_row], changed |-> TRUE]
       ELSE [app |-> focused, changed |-> FALSE]

\* handle_click in the preview pane.
HandleClickPreview(a) == [app |-> [a EXCEPT !.focused_pane = "Preview"], changed |-> FALSE]

\* schedule_read_mark / cancel_pending_read_mark
ScheduleReadMark(a, id) == [a EXCEPT !.pending_read_mark = <<id>>]

CancelPendingReadMark(a) == [a EXCEPT !.pending_read_mark = <<>>]

\* load_and_mark_read and load_and_mark_read_with_images (main.rs): the
\* pending mark is cancelled and one for the selection scheduled if unread.
LoadAndMarkRead(a) ==
    LET cancelled == CancelPendingReadMark(a)
        env == SelectedEnvelope(a)
    IN IF env # <<>> /\ ~IsSeen(env[1]) THEN ScheduleReadMark(cancelled, env[1].id)
       ELSE cancelled

\* ---- inputs
\* Message k of a mailbox: its file name carries the Seen flag; kind 1 has
\* the subject "a" and no From header, kind 2 the subject "b" and the
\* sender address "n".
EnvelopeOf(k, seen, kind) ==
    LET id == <<96 + k>> \o FlagsMarker \o (IF seen THEN <<CharS>> ELSE <<>>)
    IN [id |-> id,
        flags |-> ParseFlagsFromFilename(id),
        subject |-> IF kind = 1 THEN <<(<<97>>)>> ELSE <<(<<98>>)>>,
        from |-> IF kind = 1 THEN <<>> ELSE <<[name |-> <<>>, addr |-> <<110>>]>>]

Mailboxes(n) ==
    UNION {{[k \in 1..len |-> EnvelopeOf(k, f[k][1], f[k][2])] :
               f \in [1..len -> BOOLEAN \X {1, 2}]} : len \in 0..n}

\* The characters typed into the search box: a and n.
QueryChars == {97, 110}

\* The offsets a draw of the list can leave: the list widget keeps the
\* selection inside the viewport and the offset inside the list.
VisibleOffsets(a, visible_height) ==
    {o \in 0..(IF a.filtered_indices = <<>> THEN 0 ELSE Len(a.filtered_indices) - 1) :
        \/ a.selected = -1
        \/ visible_height = 0
        \/ o <= a.selected /\ a.selected < o + visible_height}

\* terminal.draw at the top of the main loop, before the event is handled.
Drawn(a) ==
    {[a EXCEPT !.offset = o] : o \in VisibleOffsets(a, ListVisibleHeight(list_height))}

ListEnvironment == <<list_height, maildir, cwd_in_maildir, debug_build>>

\* ---- the operations of App, in any order
OpNext ==
    /\ list_view \in {"List", "Search"}
    /\ SetApp(ListNext(App))
    /\ UNCHANGED <<ListEnvironment, last_mark>>
    /\ UNCHANGED notList

OpPrevious ==
    /\ list_view \in {"List", "Search"}
    /\ SetApp(ListPrevious(App))
    /\ UNCHANGED <<ListEnvironment, last_mark>>
    /\ UNCHANGED notList

OpClick ==
    /\ list_view \in {"List", "Search"}
    /\ \E a \in Drawn(App), visual_row \in 0..MaxList :
          SetApp(HandleClickList(a, visual_row).app)
    /\ UNCHANGED <<ListEnvironment, last_mark>>
    /\ UNCHANGED notList

OpToggleUnreadFilter ==
    /\ list_view \in {"List", "Search"}
    /\ SetApp(ToggleUnreadFilter(App))
    /\ UNCHANGED <<ListEnvironment, last_mark>>
    /\ UNCHANGED notList

\* The in-memory search: a character typed or deleted, then run_search.
OpSearch ==
    /\ list_view \in {"List", "Search"}
    /\ \/ \E c \in QueryChars :
             /\ Len(search_query) < MaxQuery
             /\ SetApp(RunSearch([App EXCEPT !.search_query = Append(@, c)]))
       \/ SetApp(RunSearch([App EXCEPT !.search_query =
                               IF @ = <<>> THEN @ ELSE SubSeq(@, 1, Len(@) - 1)]))
    /\ UNCHANGED <<ListEnvironment, last_mark>>
    /\ UNCHANGED notList

OpCancelSearch ==
    /\ list_view \in {"List", "Search"}
    /\ SetApp(CancelSearch(App))
    /\ UNCHANGED <<ListEnvironment, last_mark>>
    /\ UNCHANGED notList

OpRefresh ==
    /\ list_view \in {"List", "Search"}
    /\ \E new_envelopes \in Mailboxes(MaxList) : SetApp(Refresh(App, new_envelopes))
    /\ UNCHANGED <<ListEnvironment, last_mark>>
    /\ UNCHANGED notList

OpSetSearchResults ==
    /\ list_view \in {"List", "Search"}
    /\ \E results \in Mailboxes(MaxList) : SetApp(SetSearchResults(App, results))
    /\ UNCHANGED <<ListEnvironment, last_mark>>
    /\ UNCHANGED notList

NextApp ==
    \/ OpNext
    \/ OpPrevious
    \/ OpClick
    \/ OpToggleUnreadFilter
    \/ OpSearch
    \/ OpCancelSearch
    \/ OpRefresh
    \/ OpSetSearchResults

\* App::new on the envelopes a scan returned.
NewApp(loaded) ==
    [envelopes |-> loaded,
     original_envelopes |-> loaded,
     filtered_indices |-> IndicesIn(Len(loaded), 0..(Len(loaded) - 1)),
     selected |-> IF loaded # <<>> THEN 0 ELSE -1,
     offset |-> 0,
     search_query |-> <<>>,
     is_search_results |-> FALSE,
     show_unread_only |-> FALSE,
     view |-> "List",
     focused_pane |-> "List",
     pending_read_mark |-> <<>>]

IsApp(a) ==
    /\ app_envelopes = a.envelopes
    /\ original_envelopes = a.original_envelopes
    /\ filtered_indices = a.filtered_indices
    /\ selected = a.selected
    /\ offset = a.offset
    /\ search_query = a.search_query
    /\ is_search_results = a.is_search_results
    /\ show_unread_only = a.show_unread_only
    /\ list_view = a.view
    /\ focused_pane = a.focused_pane
    /\ pending_read_mark = a.pending_read_mark

OthersOff ==
    /\ ThreadOff
    /\ ScanOff
    /\ AddrOff
    /\ PrefixOff
    /\ SerdeOff
    /\ FlagsOff
    /\ DateOff
    /\ DecodeOff
    /\ HeadersOff
    /\ ComposeOff

InitApp ==
    /\ OthersOff
    /\ \E loaded \in Mailboxes(MaxList) : IsApp(NewApp(loaded))
    /\ list_height = MaxHeight
    /\ maildir = {}
    /\ cwd_in_maildir = FALSE
    /\ debug_build = FALSE
    /\ last_mark = <<>>

SpecApp == InitApp /\ [][NextApp]_vars

\* ---- scroll_list_down and scroll_list_up on any list
CallScrollListDown ==
    /\ list_view = "List"
    /\ \E lines \in 0..MaxScroll :
          LET r == ScrollListDown(App, lines, ListVisibleHeight(list_height), debug_build)
          IN SetApp([r.app EXCEPT !.view = IF r.panic THEN "Panic" ELSE @])
    /\ UNCHANGED <<ListEnvironment, last_mark>>
    /\ UNCHANGED notList

CallScrollListUp ==
    /\ list_view = "List"
    /\ \E lines \in 0..MaxScroll :
          LET r == ScrollListUp(App, lines, ListVisibleHeight(list_height), debug_build)
          IN SetApp([r.app EXCEPT !.view = IF r.panic THEN "Panic" ELSE @])
    /\ UNCHANGED <<ListEnvironment, last_mark>>
    /\ UNCHANGED notList

NextScroll == CallScrollListDown \/ CallScrollListUp

\* A list of any length with any row selected, scrolled to any offset, in a
\* pane of any height, built either way.
InitScroll ==
    /\ OthersOff
    /\ \E loaded \in Mailboxes(MaxScrollList) :
          /\ \A k \in 1..Len(loaded) : ~IsSeen(loaded[k]) /\ loaded[k].from = <<>>
          /\ \E sel \in 0..Len(loaded), o \in 0..Len(loaded) :
                /\ loaded # <<>> => sel < Len(loaded) /\ o < Len(loaded)
                /\ loaded = <<>> => sel = 0 /\ o = 0
                /\ IsApp([NewApp(loaded) EXCEPT
                            !.selected = IF loaded = <<>> THEN -1 ELSE sel,
                            !.offset = o])
    /\ list_height \in 0..MaxHeight
    /\ debug_build \in BOOLEAN
    /\ maildir = {}
    /\ cwd_in_maildir = FALSE
    /\ last_mark = <<>>

SpecScroll == InitScroll /\ [][NextScroll]_vars

\* ---- the key and mouse handlers of the list and search views
\* toggle_read(file_path, currently_read): the name modify_maildir_flags
\* renames the file to.
ToggleReadName(file_path, currently_read) ==
    IF currently_read THEN NewFilename(file_path, 0, CharS)
    ELSE NewFilename(file_path, CharS, 0)

\* std::fs::rename(from, to) with from a bare file name: it is looked up in
\* the working directory, and may fail even where the file is.
RenameOutcomes(from) == IF cwd_in_maildir /\ from \in maildir THEN BOOLEAN ELSE {FALSE}

Handled(a) ==
    /\ SetApp(a)
    /\ UNCHANGED <<ListEnvironment, last_mark>>
    /\ UNCHANGED notList

\* List view, 'j' and Down.
ListKeyJ ==
    /\ list_view = "List"
    /\ \E a \in Drawn(App) :
          Handled(IF a.focused_pane = "List" THEN LoadAndMarkRead(ListNext(a)) ELSE a)

\* List view, 'k' and Up.
ListKeyK ==
    /\ list_view = "List"
    /\ \E a \in Drawn(App) :
          Handled(IF a.focused_pane = "List" THEN LoadAndMarkRead(ListPrevious(a)) ELSE a)

\* List view, 'h' and Left.
ListKeyH ==
    /\ list_view = "List"
    /\ \E a \in Drawn(App) : Handled([a EXCEPT !.focused_pane = "List"])

\* List view, 'l', Right and Enter.
ListKeyL ==
    /\ list_view = "List"
    /\ \E a \in Drawn(App) : Handled([a EXCEPT !.focused_pane = "Preview"])

\* List view, Esc.
ListKeyEsc ==
    /\ list_view = "List"
    /\ \E a \in Drawn(App) :
          Handled(IF a.is_search_results THEN CancelSearch(a)
                  ELSE [a EXCEPT !.focused_pane = "List"])

\* List view, 'u': the flag is toggled in memory, then the file renamed, and
\* the rename's result dropped.
ListKeyU ==
    /\ list_view = "List"
    /\ \E a \in Drawn(App) :
          LET r == ToggleCurrentRead(a)
          IN /\ SetApp(r.app)
             /\ IF r.result = <<>> THEN maildir' = maildir
                ELSE LET id == r.result[1].id
                         new_name == ToggleReadName(id, ~r.result[1].is_now_read)
                     IN \E rename_ok \in RenameOutcomes(id) :
                           maildir' = IF rename_ok
                                      THEN (maildir \ {id}) \cup {new_name}
                                      ELSE maildir
    /\ UNCHANGED <<list_height, cwd_in_maildir, debug_build, last_mark>>
    /\ UNCHANGED notList

\* List view, 'U'.
ListKeyShiftU ==
    /\ list_view = "List"
    /\ \E a \in Drawn(App) : Handled(ToggleUnreadFilter(a))

\* List view, '/'.
ListKeySlash ==
    /\ list_view = "List"
    /\ \E a \in Drawn(App) : Handled(StartSearch(a))

SearchKeyEsc ==
    /\ list_view = "Search"
    /\ \E a \in Drawn(App) : Handled(CancelSearch(a))

SearchKeyEnter ==
    /\ list_view = "Search"
    /\ \E a \in Drawn(App) : Handled([a EXCEPT !.view = "List"])

SearchKeyBackspace ==
    /\ list_view = "Search"
    /\ \E a \in Drawn(App) :
          Handled(RunSearch([a EXCEPT !.search_query =
                               IF @ = <<>> THEN @ ELSE SubSeq(@, 1, Len(@) - 1)]))

SearchKeyChar ==
    /\ list_view = "Search"
    /\ Len(search_query) < MaxTyped
    /\ \E a \in Drawn(App), c \in QueryChars :
          Handled(RunSearch([a EXCEPT !.search_query = Append(@, c)]))

\* Search view, Down and Tab.
SearchKeyDown ==
    /\ list_view = "Search"
    /\ \E a \in Drawn(App) : Handled(ListNext(a))

SearchKeyUp ==
    /\ list_view = "Search"
    /\ \E a \in Drawn(App) : Handled(ListPrevious(a))

\* A mouse button pressed on a row of the list pane, in the preview pane or
\* outside both.
MouseDown ==
    /\ list_view \in {"List", "Search"}
    /\ \E a \in Drawn(App) :
          \/ \E visual_row \in 0..MaxList : Handled(HandleClickList(a, visual_row).app)
          \/ Handled(HandleClickPreview(a).app)
          \/ Handled(a)

MouseScrollDown ==
    /\ list_view \in {"List", "Search"}
    /\ \E a \in Drawn(App) :
          IF a.focused_pane = "List"
          THEN LET r == ScrollListDown(a, ScrollLines, ListVisibleHeight(list_height),
                                       debug_build)
               IN Handled([r.app EXCEPT !.view = IF r.panic THEN "Panic" ELSE @])
          ELSE Handled(a)

MouseScrollUp ==
    /\ list_view \in {"List", "Search"}
    /\ \E a \in Drawn(App) :
          IF a.focused_pane = "List"
          THEN LET r == ScrollListUp(a, ScrollLines, ListVisibleHeight(list_height),
                                     debug_build)
               IN Handled([r.app EXCEPT !.view = IF r.panic THEN "Panic" ELSE @])
          ELSE Handled(a)

\* The ids of the envelopes that are Seen in `after` and were not in `before`.
NewlySeen(before, after) ==
    {after[k].id : k \in {i \in 1..Len(after) : IsSeen(after[i]) /\ ~IsSeen(before[i])}}

\* process_pending_read_marks, once the pending mark's 750 ms have passed:
\* check_pending_read_mark takes the mark and mark_current_read is called.
ProcessPendingReadMarks ==
    /\ list_view \in {"List", "Search"}
    /\ pending_read_mark # <<>>
    /\ LET marked == MarkCurrentRead(CancelPendingReadMark(App))
       IN /\ SetApp(marked)
          /\ last_mark' = <<[scheduled |-> pending_read_mark[1],
                             marked |-> NewlySeen(app_envelopes, marked.envelopes)]>>
    /\ UNCHANGED ListEnvironment
    /\ UNCHANGED notList

NextRead ==
    \/ ListKeyJ
    \/ ListKeyK
    \/ ListKeyH
    \/ ListKeyL
    \/ ListKeyEsc
    \/ ListKeyU
    \/ ListKeyShiftU
    \/ ListKeySlash
    \/ SearchKeyEsc
    \/ SearchKeyEnter
    \/ SearchKeyBackspace
    \/ SearchKeyChar
    \/ SearchKeyDown
    \/ SearchKeyUp
    \/ MouseDown
    \/ MouseScrollDown
    \/ MouseScrollUp
    \/ ProcessPendingReadMarks

\* main before its loop: App::new on the scanned envelopes, whose file
\* names are the maildir's, then load_and_mark_read_with_images.
InitRead ==
    /\ OthersOff
    /\ \E loaded \in Mailboxes(MaxList) :
          /\ Len(loaded) = MaxList
          /\ IsApp(LoadAndMarkRead(NewApp(loaded)))
          /\ maildir = {loaded[k].id : k \in 1..Len(loaded)}
    /\ list_height = MaxHeight
    /\ cwd_in_maildir \in BOOLEAN
    /\ debug_build = FALSE
    /\ last_mark = <<>>

SpecRead == InitRead /\ [][NextRead]_vars

\* ------------------------------------------------------------------ claims
\* The positions of input envelope k in the output.
Pos(k) == {p \in 1..Len(output) : output[p].id = k}

\* The position at which the thread block holding position p starts: the
\* nearest position at or before p with display depth 0.
BlockStart(p) == SetMax({q \in 1..p : q = 1 \/ output[q].display_depth = 0})

\* C1: when build_threaded_list returns, every input envelope appears
\* exactly once in the output (same length, same messages).
C1_EveryEnvelopeOnce ==
    tpc = "done" =>
        /\ Len(output) = Len(envelopes)
        /\ \A k \in 1..Len(envelopes) : Cardinality(Pos(k)) = 1

\* C2: build_threaded_list terminates on every input, reply cycles included.
C2_Terminates == <>(tpc = "done")

\* C9: the parent of an envelope is the owner of the first id, among its
\* in_reply_to followed by its references from last to first, that is indexed
\* and owned by another envelope; none when there is no such id.  No envelope
\* is its own parent and a parent always has a message-id.
Reverse(s) == [k \in 1..Len(s) |-> s[Len(s) + 1 - k]]

C9_ParentChoice ==
    tpc \in {"roots", "compress", "done"} /\ envelopes # <<>> =>
        \A i \in 1..Len(envelopes) :
            LET cands == <<envelopes[i].in_reply_to>> \o Reverse(envelopes[i].references)
                owner(k) == IdToIdx(envelopes, cands[k])
                good == {k \in 1..Len(cands) : owner(k) # 0 /\ owner(k) # i}
            IN /\ good = {} => parent[i] = 0
               /\ good # {} =>
                     parent[i] = owner(CHOOSE k \in good : \A j \in good : k <= j)
               /\ parent[i] # i
               /\ parent[i] # 0 => envelopes[parent[i]].message_id # 0

\* C9 witness: an envelope whose in_reply_to and last reference both name
\* itself and whose parent comes from its first reference, next to an envelope
\* without message-id.
C9_Witness ==
    /\ tpc = "done"
    /\ \E i \in 1..Len(envelopes) :
          /\ Len(envelopes[i].references) = 2
          /\ envelopes[i].in_reply_to # 0
          /\ IdToIdx(envelopes, envelopes[i].in_reply_to) = i
          /\ IdToIdx(envelopes, envelopes[i].references[2]) = i
          /\ parent[i] # 0
          /\ parent[i] = IdToIdx(envelopes, envelopes[i].references[1])
          /\ \E j \in 1..Len(envelopes) : j # i /\ envelopes[j].message_id = 0

\* C10: if B.in_reply_to = A.message_id (A, B distinct, ids unique) then in
\* the output A appears strictly before B, in the same thread, and B's
\* display depth is at least A's.
C10_ReplyAfterParent ==
    tpc = "done" =>
        \A a, b \in 1..Len(envelopes) :
            a # b /\ envelopes[b].in_reply_to = envelopes[a].message_id =>
                /\ Pos(b) # {}
                /\ \A pb \in Pos(b) : \E pa \in Pos(a) :
                      /\ pa < pb
                      /\ BlockStart(pa) = BlockStart(pb)
                      /\ output[pb].display_depth >= output[pa].display_depth
\* C3: the `current` values passed to the progress callback, in call order,
\* never decrease.
C3_ProgressMonotonic ==
    \A k \in 1..(Len(progress_log) - 1) :
        progress_log[k].current <= progress_log[k + 1].current

\* The number of envelopes of path p in the sequence envs.
CountOf(envs, p) == Cardinality({k \in 1..Len(envs) : envs[k].file_path = p})

\* C4 (as claimed): the returned envelopes are exactly those of the present
\* files that parse: none for a path that is not present, none missing.
C4_ResultIsStore ==
    spc = "done" =>
        /\ \A k \in 1..Len(scan_result) : files[scan_result[k].file_path].present
        /\ \A p \in Paths :
              files[p].present /\ files[p].content # 0 => CountOf(scan_result, p) >= 1

\* C4 (amended): when the file count differs from the number of cache entries,
\* no envelope is returned for a path that is not present, each file yields at
\* most one envelope, a cached envelope is returned only when its entry's mtime
\* equals the file's readable mtime, and no present parseable file is missing.
C4_SlowPathResultIsStore ==
    spc = "done" /\ Len(file_paths) # Cardinality(DOMAIN cache) =>
        /\ \A k \in 1..Len(scan_result) :
              LET e == scan_result[k]
                  f == files[e.file_path]
              IN /\ f.present
                 /\ CountOf(scan_result, e.file_path) = 1
                 /\ \/ /\ f.content # 0
                       /\ e.content = f.content
                       /\ e.file_path \notin DOMAIN cache
                              \/ f.mtime < 0 \/ cache[e.file_path].mtime # f.mtime
                    \/ /\ e.file_path \in DOMAIN cache
                       /\ e = cache[e.file_path].envelope
                       /\ f.mtime >= 0
                       /\ cache[e.file_path].mtime = f.mtime
        /\ \A p \in Paths :
              files[p].present /\ files[p].content # 0 => CountOf(scan_result, p) = 1

\* C4 witness: a slow-path scan with a cache entry for a deleted file, which
\* is not returned, and one for a file whose mtime changed, which is reparsed.
C4_Witness ==
    /\ spc = "done"
    /\ Len(file_paths) # Cardinality(DOMAIN cache)
    /\ \E p, q \in DOMAIN cache :
          /\ ~files[p].present
          /\ CountOf(scan_result, p) = 0
          /\ files[q].present
          /\ files[q].mtime >= 0
          /\ cache[q].mtime # files[q].mtime
          /\ files[q].content # cache[q].envelope.content
          /\ \E k \in 1..Len(scan_result) :
                scan_result[k].file_path = q /\ scan_result[k].content = files[q].content

\* C5: every entry of the persisted snapshot carries the modification time
\* its file had when the entry's envelope was parsed.
C5_EntryMtimeIsParseMtime ==
    cache_file.state = "ok" =>
        \A p \in DOMAIN cache_file.envelopes :
            cache_file.envelopes[p].mtime = cache_file.envelopes[p].envelope.parsed_mtime

\* C7: with as many files as cache entries, get_files_to_parse returns nothing
\* to parse and the envelope of every cache entry, whatever the files are.
C7_FastPath ==
    spc = "parse" /\ Len(file_paths) = Cardinality(DOMAIN cache) =>
        /\ to_parse = <<>>
        /\ Len(cached_envelopes) = Cardinality(DOMAIN cache)
        /\ \A p \in DOMAIN cache :
              \E k \in 1..Len(cached_envelopes) : cached_envelopes[k] = cache[p].envelope

\* C7 witness: the fast path taken although a cached file was rewritten with
\* another mtime and another content.
C7_Witness ==
    /\ spc = "parse"
    /\ Len(file_paths) = Cardinality(DOMAIN cache)
    /\ Cardinality(DOMAIN cache) = 2
    /\ \E p \in DOMAIN cache :
          /\ files[p].present
          /\ GetFileMtime(files[p]) # cache[p].mtime
          /\ files[p].content # cache[p].envelope.content
          /\ CountOf(cached_envelopes, p) = 1

\* C8: on the slow path every enumerated file is in exactly one of the two
\* outputs: in to_parse iff it has no cache entry, or its mtime differs from
\* the cached one, or its mtime cannot be read; otherwise its cached envelope is
\* returned as it is.  Nothing is returned for a path that was not enumerated.
C8_SlowPathPartition ==
    spc = "parse" /\ Len(file_paths) # Cardinality(DOMAIN cache) =>
        \A p \in Paths :
            LET inParse == Cardinality({k \in 1..Len(to_parse) : to_parse[k] = p})
                inCache == CountOf(cached_envelopes, p)
            IN IF files[p].present
               THEN /\ inParse + inCache = 1
                    /\ inParse = 1 <=>
                          \/ p \notin DOMAIN cache
                          \/ files[p].mtime < 0
                          \/ cache[p].mtime # files[p].mtime
                    /\ inCache = 1 =>
                          \E k \in 1..Len(cached_envelopes) :
                              cached_envelopes[k] = cache[p].envelope
               ELSE inParse = 0 /\ inCache = 0

\* C8 witness: a slow-path plan with a cache entry for a path that is not
\* enumerated, and a cached file whose mtime cannot be read (its entry was
\* saved with mtime 0), which is scheduled for parsing.
C8_Witness ==
    /\ spc = "parse"
    /\ Len(file_paths) # Cardinality(DOMAIN cache)
    /\ \E p, q \in DOMAIN cache :
          /\ ~files[p].present
          /\ files[q].present
          /\ files[q].mtime < 0
          /\ cache[q].mtime = 0
          /\ to_parse = <<q>>
          /\ cached_envelopes = <<>>
\* C6: parse_email_address returns an Address for every header value; it
\* never panics.
C6_AddressNeverPanics == apc = "done" => ~address.panic

\* C11: every output envelope has display_depth = thread_depth in 0..3, and
\* no tree prefix is the bracketed numeric fallback.
C11_DepthAtMostThree ==
    tpc \in {"annotated", "done"} =>
        \A p \in 1..Len(output) :
            /\ output[p].display_depth \in 0..3
            /\ output[p].thread_depth = output[p].display_depth
            /\ \A g \in 1..Len(output[p].tree_prefix) : output[p].tree_prefix[g] # "["

\* C11 witness: a reply to a branch point that already has display depth 3;
\* the reply stays at 3.
C11_Witness ==
    /\ tpc = "annotated"
    /\ \E p, pp \in 1..Len(output) :
          /\ parent[output[p].id] = output[pp].id
          /\ Len(children[output[pp].id]) > 1
          /\ output[pp].display_depth = 3
          /\ output[p].display_depth = 3

BlockMaxDate(q) == SetMax({output[p].date : p \in {r \in 1..Len(output) : BlockStart(r) = q}})

\* C14: threads are emitted by freshest date, descending: of two thread
\* blocks of the output, the one with the greater maximum member date (0, the
\* empty date, when no member is dated) comes first.
C14_FreshestThreadFirst ==
    tpc = "done" =>
        \A q1, q2 \in 1..Len(output) :
            /\ BlockStart(q1) = q1
            /\ BlockStart(q2) = q2
            /\ q1 < q2
            => BlockMaxDate(q1) >= BlockMaxDate(q2)

\* C15: the output is a function of the input: whatever order the threads
\* map yields its keys in, the same output results.
C15_Deterministic ==
    tpc = "done" /\ envelopes # <<>> =>
        \A keyOrder \in Perms({thread_root[k] : k \in 1..Len(envelopes)}) :
            LET roots == SortedRoots(envelopes, thread_root, keyOrder)
            IN output = Flatten([k \in 1..Len(roots) |->
                                    ThreadResult(envelopes, children, roots[k])])

\* Message k is a proper descendant of message a (within `fuel` hops).
RECURSIVE IsDescendant(_, _, _)
IsDescendant(k, a, fuel) ==
    /\ fuel > 0
    /\ parent[k] # 0
    /\ parent[k] = a \/ IsDescendant(parent[k], a, fuel - 1)

\* C16: within a thread block the replies to one parent are in ascending date
\* order (undated first, equal dates in input order), every reply of a member
\* is in the block, and between a parent and any of its replies there are only
\* descendants of that parent: each reply is followed by its whole subtree
\* before the next sibling.
C16_SiblingsByDateDepthFirst ==
    tpc = "done" =>
        /\ \A p, q \in 1..Len(output) :
              /\ p < q
              /\ BlockStart(p) = BlockStart(q)
              /\ parent[output[p].id] # 0
              /\ parent[output[p].id] = parent[output[q].id]
              => \/ output[p].date < output[q].date
                 \/ output[p].date = output[q].date /\ output[p].id < output[q].id
        /\ \A r \in 1..Len(output) :
              output[r].display_depth # 0 =>
                  \E pp \in 1..(r - 1) :
                      /\ BlockStart(pp) = BlockStart(r)
                      /\ output[pp].id = parent[output[r].id]
                      /\ \A m \in (pp + 1)..(r - 1) :
                            IsDescendant(output[m].id, output[pp].id, Len(envelopes))
        /\ \A p \in 1..Len(output) : \A k \in 1..Len(envelopes) :
              parent[k] = output[p].id =>
                  \E q \in (p + 1)..Len(output) :
                      BlockStart(q) = BlockStart(p) /\ output[q].id = k

\* C16 witness: the root's undated later reply, with a reply of its own, comes
\* before the root's dated earlier reply.
C16_Witness ==
    /\ tpc = "done"
    /\ Len(output) = 4
    /\ [k \in 1..4 |-> output[k].id] = <<1, 3, 4, 2>>
    /\ parent = <<0, 1, 1, 3>>
    /\ envelopes[3].date = 0
    /\ envelopes[2].date > 0

\* The root of the reply tree of message k (within `fuel` hops).
RECURSIVE TrueRoot(_, _)
TrueRoot(k, fuel) == IF parent[k] = 0 \/ fuel = 0 THEN k ELSE TrueRoot(parent[k], fuel - 1)

\* C17: the output is a concatenation of per-thread blocks: an envelope has
\* display depth 0 iff it is a thread root, every member of a block belongs
\* to the thread of the block's first envelope, no thread has two blocks, and
\* so the number of depth-0 envelopes is the number of threads.
C17_ThreadBlocks ==
    tpc = "done" =>
        /\ \A p \in 1..Len(output) :
              /\ output[p].display_depth = 0 <=> parent[output[p].id] = 0
              /\ TrueRoot(output[p].id, Len(envelopes)) = output[BlockStart(p)].id
        /\ \A p, q \in 1..Len(output) :
              BlockStart(p) = p /\ BlockStart(q) = q /\ p # q => output[p].id # output[q].id
        /\ Cardinality({p \in 1..Len(output) : output[p].display_depth = 0})
              = Cardinality({k \in 1..Len(envelopes) : parent[k] = 0})

\* The number a sequence of decimal digits denotes; -1 when a glyph is not a
\* digit.
RECURSIVE DigitsValue(_)
DigitsValue(ds) ==
    LET digits == <<"0", "1", "2", "3", "4", "5", "6", "7", "8", "9">>
        last == ds[Len(ds)]
        v == IF \E d \in 1..10 : digits[d] = last
             THEN (CHOOSE d \in 1..10 : digits[d] = last) - 1 ELSE -1
        front == DigitsValue(SubSeq(ds, 1, Len(ds) - 1))
    IN IF ds = <<>> THEN 0
       ELSE IF v = -1 \/ front = -1 THEN -1
       ELSE 10 * front + v

\* C18: compute_tree_prefix returns the empty string for depth 0; for depth
\* 1..3, depth - 1 vertical-continuation glyphs and then the last-branch glyph
\* when is_last_sibling, else the mid-branch glyph; for a depth above 3, the
\* depth in decimal between "[" and "] ".
C18_TreePrefix ==
    tp_pc = "done" =>
        IF tp_depth = 0 THEN tp_prefix = <<>>
        ELSE IF tp_depth <= 3
        THEN /\ Len(tp_prefix) = tp_depth
             /\ \A k \in 1..(tp_depth - 1) : tp_prefix[k] = "|  "
             /\ tp_prefix[tp_depth] = (IF tp_is_last_sibling THEN "L- " ELSE "+- ")
        ELSE /\ Len(tp_prefix) >= 3
             /\ tp_prefix[1] = "["
             /\ tp_prefix[Len(tp_prefix)] = "] "
             /\ tp_prefix[2] # "0"
             /\ DigitsValue(SubSeq(tp_prefix, 2, Len(tp_prefix) - 1)) = tp_depth

\* C18 witness: the deepest glyph prefix, for a last sibling, as in
\* test_tree_prefix.
C18_Witness ==
    /\ tp_pc = "done"
    /\ tp_depth = 3
    /\ tp_is_last_sibling
    /\ tp_prefix = <<"|  ", "|  ", "L- ">>

\* The files handed to the parse workers that parse successfully.
ParsedOk == {k \in 1..Len(to_parse) :
                files[to_parse[k]].present /\ files[to_parse[k]].content # 0}

C20_ProgressEnvelope ==
    spc \in {"parse", "done"} =>
        /\ Len(progress_log) >= 1
        /\ progress_log[1] = [current |-> cache_hits, total |-> total]
        /\ \A k \in 1..Len(progress_log) :
              /\ progress_log[k].total = total
              /\ cache_hits <= progress_log[k].current
              /\ progress_log[k].current <= total
        /\ spc = "done" =>
              /\ Len(progress_log) >= 2
              /\ progress_log[Len(progress_log)] = [current |-> total, total |-> total]
              /\ \A k \in 1..Len(tasks) : tasks[k].st = "done"
        /\ spc = "parse" =>
              Len(progress_log) <= 1 + Cardinality({k \in 1..Len(tasks) : tasks[k].st = "done"})

\* C20 witness: a finished scan with a cache hit, a failed parse and a call
\* from the parse phase.
C20_Witness ==
    /\ spc = "done"
    /\ cache_hits > 0
    /\ Len(progress_log) >= 3
    /\ \E k \in 1..Len(tasks) : tasks[k].result = <<>>

\* C21: the cache file changes only in the step that ends a scan, after every
\* parse worker has finished; that step occurs once per scan, so the snapshot
\* is written at most once and never while a file is being parsed.
C21_CacheWrittenOnceAfterJoin ==
    [][cache_file' # cache_file =>
          /\ spc = "parse"
          /\ spc' = "done"
          /\ \A k \in 1..Len(tasks) : tasks[k].st = "done"]_vars

\* C21 witness: a scan that parsed two files has returned and left a
\* snapshot of both.
C21_Witness ==
    /\ spc = "done"
    /\ Len(tasks) = 2
    /\ cache_file.state = "ok"
    /\ Cardinality(DOMAIN cache_file.envelopes) = 2

\* C22: a save that succeeds and changes the cache file leaves a snapshot
\* whose keys are the file paths of the returned envelopes, each with the
\* returned envelope: nothing of the previous snapshot is kept.
C22_SnapshotReplacedWholesale ==
    [][spc = "parse" /\ spc' = "done" /\ cache_file' # cache_file /\ cache_file'.state = "ok" =>
          /\ DOMAIN cache_file'.envelopes =
                {scan_result'[k].file_path : k \in 1..Len(scan_result')}
          /\ \A k \in 1..Len(scan_result') :
                cache_file'.envelopes[scan_result'[k].file_path].envelope = scan_result'[k]]_vars

\* C22 witness: the loaded snapshot had an entry for a path that the scan did
\* not return, and the snapshot saved by the scan has no entry for it.
C22_Witness ==
    /\ spc = "done"
    /\ cache_file.state = "ok"
    /\ scan_result # <<>>
    /\ \E p \in DOMAIN cache :
          /\ p \notin DOMAIN cache_file.envelopes
          /\ CountOf(scan_result, p) = 0

\* C24: when the cache file is missing, cannot be opened, does not
\* deserialize or carries another version, load_cache returns the empty map
\* whatever the file holds, and the scan of a non-empty store hands every
\* enumerated file to the parse workers.
C24_LoadFailureMeansFullRescan ==
    spc = "parse" /\ (cache_file.state # "ok" \/ cache_file.version # CACHE_VERSION) =>
        /\ cache = <<>>
        /\ cache_hits = 0
        /\ cached_envelopes = <<>>
        /\ to_parse = file_paths
        /\ \A p \in Paths : files[p].present => \E k \in 1..Len(to_parse) : to_parse[k] = p

\* C24 witness: a snapshot of another version holds entries with the current
\* mtime of both files of the store, and both files are to be parsed.
C24_Witness ==
    /\ spc = "parse"
    /\ cache_file.state = "ok"
    /\ cache_file.version # CACHE_VERSION
    /\ Len(file_paths) = MaxPaths
    /\ \A p \in Paths :
          /\ p \in DOMAIN cache_file.envelopes
          /\ files[p].mtime = cache_file.envelopes[p].mtime
    /\ Len(to_parse) = MaxPaths

\* C23: the envelope a scan returns for a file whose envelope was handed to
\* save_cache with threading annotations has thread_depth 0, display_depth 0,
\* is_last_in_thread false and an empty tree_prefix, whether it comes from
\* the cache or from a fresh parse, and its other fields are the saved ones.
C23_AnnotationsNotCached ==
    ser_pc \in {"hit", "parsed"} =>
        /\ ser_returned[1].thread_depth = 0
        /\ ser_returned[1].display_depth = 0
        /\ ser_returned[1].is_last_in_thread = FALSE
        /\ ser_returned[1].tree_prefix = <<>>
        /\ SerializeEnvelope(ser_returned[1]) = SerializeEnvelope(ser_envelope)

C23_Witness ==
    /\ ser_pc = "hit"
    /\ ser_envelope.display_depth = 3
    /\ ser_envelope.is_last_in_thread
    /\ ser_envelope.tree_prefix # <<>>

\* The set of flags parse_flags_from_filename returns.
FlagSet(filename) ==
    LET fs == ParseFlagsFromFilename(filename) IN {fs[k] : k \in 1..Len(fs)}

\* C25: the flags decoded from the new name are the old name's flags without
\* the removed letter's flag and with the added letter's flag, and the new
\* name has a ":2," marker; a name that had none is the old name, the
\* marker, and the added letter.
C25_FlagRoundTrip ==
    fl_pc \in {"rename", "done"} =>
        /\ FlagSet(fl_new_name) =
               (FlagSet(fl_name) \ (IF fl_remove = 0 THEN {} ELSE {f \in FlagSet(fl_name) : <<f>> = FlagOf(fl_remove)}))
                   \cup (IF fl_add = 0 THEN {} ELSE {FlagOf(fl_add)[1]})
        /\ Find(fl_new_name, FlagsMarker) # -1
        /\ Find(fl_name, FlagsMarker) = -1 =>
               fl_new_name = fl_name \o FlagsMarker \o (IF fl_add = 0 THEN <<>> ELSE <<fl_add>>)

C25_Witness ==
    /\ fl_pc = "done"
    /\ fl_add = CharS
    /\ fl_remove = 0
    /\ FlagSet(fl_name) = {"Trashed", "Draft"}
    /\ FlagSet(fl_new_name) = {"Trashed", "Draft", "Seen"}

\* C26: the letters after the ":2," of the new name are in ascending order.
C26_FlagsSorted ==
    fl_pc \in {"rename", "done"} =>
        LET pos == RFind(fl_new_name, FlagsMarker)
        IN /\ pos # -1
           /\ \A k \in (pos + 4)..(Len(fl_new_name) - 1) : fl_new_name[k] <= fl_new_name[k + 1]

C26_Witness ==
    /\ fl_pc = "done"
    /\ fl_name = <<97>> \o FlagsMarker \o <<CharT, CharF, CharD>>
    /\ fl_add = CharS
    /\ fl_new_name = <<97>> \o FlagsMarker \o <<CharD, CharF, CharS, CharT>>

\* C27: when the rename fails the caller gets the error, the rename was
\* attempted once, and the file has the name it had.
C27_RenameFailurePropagates ==
    fl_pc = "done" =>
        /\ Len(fl_renames) = 1
        /\ ~fl_renames[1] => ~fl_result.ok /\ fl_disk = fl_name
        /\ fl_renames[1] => fl_result = [ok |-> TRUE, path |-> fl_new_name] /\ fl_disk = fl_new_name

C27_Witness ==
    /\ fl_pc = "done"
    /\ ~fl_result.ok
    /\ fl_disk = fl_name
    /\ fl_new_name # fl_name
    /\ fl_renames = <<FALSE>>

\* String's Ord: byte-wise lexicographic, a proper prefix first.
RECURSIVE LexLess(_, _)
LexLess(a, b) ==
    IF b = <<>> THEN FALSE
    ELSE IF a = <<>> THEN TRUE
    ELSE IF Head(a) # Head(b) THEN Head(a) < Head(b)
    ELSE LexLess(Tail(a), Tail(b))

\* parse_date identified a day, a month and a year in s.
Identified(s) == DateParts(s).day # 0 /\ DateParts(s).month # 0 /\ DateParts(s).year # 0

\* C28: the output for a header in which day, month or year was not
\* identified is lexically smaller than the output for a header in which all
\* three were.
C28_FallbackSortsFirst ==
    dt_pc = "done" =>
        \A i, j \in 1..2 :
            ~Identified(dt_raw[i]) /\ Identified(dt_raw[j]) => LexLess(dt_out[i], dt_out[j])

\* The days from 1970-01-01 to the civil date y-m-d.
LeapsBefore(y) == ((y - 1) \div 4) - ((y - 1) \div 100) + ((y - 1) \div 400)

IsLeap(y) == (y % 4 = 0 /\ y % 100 # 0) \/ y % 400 = 0

DaysBeforeMonth(y, m) ==
    <<0, 31, 59, 90, 120, 151, 181, 212, 243, 273, 304, 334>>[m]
        + (IF m > 2 /\ IsLeap(y) THEN 1 ELSE 0)

DaysFromCivil(y, m, d) ==
    365 * (y - 1970) + LeapsBefore(y) - LeapsBefore(1970) + DaysBeforeMonth(y, m) + d - 1

\* A header date with day, month and an unsigned year.
IsFullDate(h) == h.day # 0 /\ h.month # 0 /\ h.year # 0 /\ ~h.plus

\* The instant a full header date denotes, in seconds since the epoch.
Instant(h) ==
    DaysFromCivil(h.year, h.month, h.day) * 86400
        + h.time[1] * 3600 + h.time[2] * 60 + h.time[3] - h.zone * 60

\* C29: of two full header dates, both normalised, the one denoting the
\* earlier instant does not get the lexically greater string.
C29_LexicalIsChronological ==
    dt_pc = "done" /\ IsFullDate(dt_dates[1]) /\ IsFullDate(dt_dates[2]) =>
        /\ Identified(dt_raw[1]) /\ Identified(dt_raw[2])
        /\ Instant(dt_dates[1]) < Instant(dt_dates[2]) => ~LexLess(dt_out[2], dt_out[1])

\* C30: for an acyclic reply graph, two envelopes are grouped under the same
\* thread root iff their parent links lead to the same envelope, and every
\* thread root, and so every envelope that starts a block of the output, has
\* no parent.
C30_ThreadsAreComponents ==
    tpc = "done" /\ envelopes # <<>> =>
        /\ \A i, j \in 1..Len(envelopes) :
              thread_root[i] = thread_root[j]
                  <=> TrueRoot(i, Len(envelopes)) = TrueRoot(j, Len(envelopes))
        /\ \A i \in 1..Len(envelopes) : parent[thread_root[i]] = 0
        /\ \A p \in 1..Len(output) : BlockStart(p) = p => parent[output[p].id] = 0

\* The envelopes of a sequence, as a set of (path, header fields) pairs.
EnvSet(envs) == {<<envs[k].file_path, envs[k].content>> : k \in 1..Len(envs)}

\* What the files of the sequence paths parse to.
ParseSet(paths, fs) ==
    {<<paths[k], fs[paths[k]].content>> :
        k \in {j \in 1..Len(paths) : ParseMailFile(paths[j], fs[paths[j]]) # <<>>}}

\* The files the scan that just returned parsed successfully.
ParsedByLastScan == {to_parse[k] : k \in {j \in 1..Len(tasks) : tasks[j].result # <<>>}}

LastScanSaved ==
    /\ cache_file.state = "ok"
    /\ cache_file.version = CACHE_VERSION
    /\ cache_file.envelopes = BuildCacheMap(scan_result, files, Len(scan_result))

C31_DecodeNeverPanics == dh_pc = "done" => ~dh_result.panic

\* The value holds an encoded-word: "=?", later "?=", and between them at
\* least two "?".
HasEncodedWord(s) ==
    \E a, b \in 0..Len(s) :
        /\ IsMatchAt(s, <<CharEq, CharQm>>, a)
        /\ IsMatchAt(s, <<CharQm, CharEq>>, b)
        /\ a + 2 <= b
        /\ Cardinality({k \in (a + 3)..b : s[k] = CharQm}) >= 2

\* C33: a value without an encoded-word, when decode_header_value returns,
\* is returned as it is.
C33_PlainValueUnchanged ==
    dh_pc = "done" /\ ~HasEncodedWord(dh_value) /\ ~dh_result.panic =>
        dh_result.str = dh_value

\* The header block of a file: the lines before the first empty line, all
\* lines when there is none.
HeaderBlock(lines) ==
    LET empties == {k \in 1..Len(lines) : lines[k] = <<>>}
    IN IF empties = {} THEN lines
       ELSE SubSeq(lines, 1, (CHOOSE k \in empties : \A e \in empties : k <= e) - 1)

\* The value of the header that begins at line k of the block: what follows
\* the colon, then each continuation line that follows directly, trimmed
\* and joined by single spaces.
RECURSIVE Continued(_, _)
Continued(block, k) ==
    IF k > Len(block) \/ ~IsContinuation(block[k]) THEN <<>>
    ELSE <<CharSpace>> \o Trim(block[k]) \o Continued(block, k + 1)

HeaderValueAt(block, k) ==
    Trim(SubSeq(block[k], Find(block[k], <<CharColon>>) + 2, Len(block[k])))
        \o Continued(block, k + 1)

\* The fields after recording, in order, the headers that begin at or after
\* line k of the block.
RECURSIVE RecordFrom(_, _, _)
RecordFrom(fields, block, k) ==
    IF k > Len(block) THEN fields
    ELSE IF ~IsContinuation(block[k]) /\ Find(block[k], <<CharColon>>) # -1
    THEN RecordFrom(SaveHeader(fields,
                               ToLower(SubSeq(block[k], 1, Find(block[k], <<CharColon>>))),
                               HeaderValueAt(block, k)),
                    block, k + 1)
    ELSE RecordFrom(fields, block, k + 1)

\* C32: past the header loop, the fields are those of the headers that
\* begin in the header block, each with its continuation lines, the last
\* occurrence of a name winning - with or without an empty line.
C32_HeadersRecorded ==
    hl_pc = "done" => hl_env = RecordFrom(NoFields, HeaderBlock(hl_lines), 1)

\* C36: in the compose view a message is sent only by an 's' pressed while
\* a send confirmation is pending, so the key before it was an 's' too, and
\* any other key pressed while the confirmation is pending clears it: the
\* confirmation is pending only right after an 's'.
C36_SendNeedsTwoS ==
    /\ \A i \in sent_at :
          /\ i >= 2
          /\ keys_pressed[i] = "s"
          /\ keys_pressed[i - 1] = "s"
    /\ confirm_send =>
          /\ keys_pressed # <<>>
          /\ keys_pressed[Len(keys_pressed)] = "s"

\* C39: attachment_selection is 0 when there are no attachments and a valid
\* index otherwise, the removal never indexes out of bounds, and no path is
\* stored twice.
C39_AttachmentSelectionValid ==
    /\ view # "Panic"
    /\ attachments = <<>> => attachment_selection = 0
    /\ attachments # <<>> =>
          attachment_selection >= 0 /\ attachment_selection < Len(attachments)
    /\ \A i, j \in 1..Len(attachments) : attachments[i] = attachments[j] => i = j

\* The last of two attachments was selected and removed, and a path the
\* chooser returned twice was added.
C39_Witness ==
    /\ keys_pressed = <<"C", "j", "d", "a">>
    /\ view = "Compose"
    /\ Len(attachments) = 2
    /\ attachment_selection = 0

\* C38: the selection is None exactly when filtered_indices is empty, is an
\* index below filtered_indices.len() otherwise, and every element of
\* filtered_indices is an index into envelopes.
C38_SelectionValid ==
    /\ selected = -1 <=> filtered_indices = <<>>
    /\ filtered_indices # <<>> => selected >= 0 /\ selected < Len(filtered_indices)
    /\ \A k \in 1..Len(filtered_indices) :
          filtered_indices[k] >= 0 /\ filtered_indices[k] < Len(app_envelopes)

\* The unread filter is on and leaves the second of two envelopes, which is
\* the selection.
C38_Witness ==
    /\ show_unread_only
    /\ Len(app_envelopes) = 2
    /\ filtered_indices = <<1>>
    /\ selected = 0
    /\ IsSeen(app_envelopes[1])

\* C40: scroll_list_down and scroll_list_up complete without arithmetic
\* underflow and leave the selection at an index below
\* filtered_indices.len(), whatever the list, offset, line count and
\* visible height.
C40_ScrollKeepsSelection ==
    /\ list_view # "Panic"
    /\ selected < Len(filtered_indices)

\* The Seen flag of message k (the k-th of the mailbox) in memory and in
\* its file name on disk.
SeenInMemory(k) ==
    \E i \in 1..Len(app_envelopes) :
        app_envelopes[i].id[1] = 96 + k /\ IsSeen(app_envelopes[i])

SeenOnDisk(k) ==
    \E name \in maildir :
        name[1] = 96 + k /\ IsSeen([flags |-> ParseFlagsFromFilename(name)])

\* C34: after a 'u' that toggles the selected message, the Seen flag held
\* in memory for that message equals the one in its file name on disk.
C34_ToggleKeepsDiskInStep ==
    [][ListKeyU /\ SelectedEnvelope(App) # <<>> =>
          LET k == SelectedEnvelope(App)[1].id[1] - 96
          IN SeenInMemory(k)' = SeenOnDisk(k)']_vars

\* C35: a read mark that comes due marks no message but the one it was
\* scheduled for.
C35_MarkOnlyScheduled ==
    last_mark # <<>> => last_mark[1].marked \subseteq {last_mark[1].scheduled}

====
